---- MODULE Spec2Model ----
(***************************************************************************)
(* Voice capture and streaming-response core of the Bulut widget           *)
(* (src/src/index.tsx, component BulutWidget).                             *)
(*                                                                         *)
(* The widget runs on a single UI thread: every action below is one task   *)
(* of the event loop (a click handler, the continuation of an await, a     *)
(* timer callback, a MediaRecorder event, a stream callback) and runs to   *)
(* its next suspension point.  Each invocation of startButtonRecording     *)
(* that passes its guard is a "call" c \in Calls; the locals of that       *)
(* invocation (stream, recorder, audio context, interval, speechDetected)  *)
(* and the stream session its recorder may open are indexed by c.          *)
(***************************************************************************)
EXTENDS Integers, FiniteSets, Sequences, TLC

\* ---- bounds -------------------------------------------------------------
MaxCalls == 2
MaxChunks == 1
MaxEvents == 1
MaxEntries == 2
MaxScript == 4
MaxComponents == 2
MaxEffects == 3

\* ---- program constants --------------------------------------------------
\* volumes are in hundredths: VAD_THRESHOLD = 0.06
VAD_THRESHOLD == 6
SILENCE_DURATION_MS == 1000
VadIntervalMs == 50

Null == 0
Calls == 1..MaxCalls

\* Time that has passed, at a sampling tick, since the clock was last read.
\* Timers fire late (a busy or throttled page): the delays are whole numbers
\* of periods, half the silence window and the whole window, so that a
\* silence run can last less than, exactly and more than the window.
TickDelays == {10 * VadIntervalMs, SILENCE_DURATION_MS}

\* Instants are kept as the time elapsed since them, Date.now() - t, which
\* is all the code reads of them; an elapsed time beyond the window is kept
\* as MaxElapsed.
MaxElapsed == SILENCE_DURATION_MS + 10 * VadIntervalMs
Min(a, b) == IF a < b THEN a ELSE b
Elapsed(t, d) == IF t = -1 THEN -1 ELSE Min(t + d, MaxElapsed)

\* Volumes the analyser can report: just below and exactly at the threshold.
Volumes == {VAD_THRESHOLD - 1, VAD_THRESHOLD}

VARIABLES
  mounted,              \* the component has not been unmounted
  isOpen,               \* useState isOpen
  projectId,            \* liveConfig.projectId is non-empty
  hasAudioCtx,          \* window.AudioContext or webkitAudioContext exists
  previewMessage,       \* useState previewMessage
  isRecordingRef, isProcessingRef, autoListenSuppressedRef,
  recorderRef, streamRef, audioContextRef, vadIntervalRef,   \* a call or Null
  silenceStartRef,      \* Date.now() - silenceStartRef.current, or -1 (null)
  audioChunksRef,       \* number of chunks held
  activeControllerRef,  \* a call (its session's controller) or Null
  assistantMsgIdRef,    \* the id of a stored message, or Null
  autoTimer,            \* the auto-listen effect's timeout: "none" or "armed"
  pc,                   \* per call: "unused", "awaitMic", "started", "failed"
  tracksLive,           \* per call: its media stream has live tracks
  ctxOpen,              \* per call: its audio context is open
  intervalLive,         \* per call: its sampling interval is scheduled
  recState,             \* per call: "none", "recording", "inactive"
  onstop,               \* per call: handler installed, "send" or "discard"
  stopPending,          \* per call: stop event queued, not yet delivered
  speechDetected,       \* per call: local speechDetected
  sess,                 \* per call: "none", "active", "stopped", "settled"
  events,               \* per call: callbacks invoked for its session
  quiet,                \* the microphone input has fallen silent for good
  \* history variables, read by the properties only
  stoppedBy,            \* per call: what stopped its recorder, or "none"
  cancelled,            \* per call: cancelRecording ran while it was Listening
  runStart,             \* per call: time since the first sample of its silence run, or -1
  blobSize,             \* per call: size of the blob built by onstop, or -1
  eventsAtStop          \* per call: events[c] when stop() returned, or -1

\* State of the two text utilities, which the widget's recording handlers
\* never touch: a StreamingJsonParser with the driver that feeds it, and
\* the last call of parseAgentResponse.
VARIABLES
  buffer,               \* the text appended to the lexer so far
  lastExtractedValue,   \* StreamingJsonParser.lastExtractedValue
  thrown,               \* a call of extractField has thrown
  \* history variables, read by the properties only
  returned,             \* what the last call of extractField returned
  askedField,           \* the field that call asked for, NoText before any call
  askedFields,          \* fields asked for since construction or reset()
  hadValue,             \* fields a call before the last one returned a value for
  owner,                \* the field lastExtractedValue was read from
  prevReturned,         \* what the call before the last one returned
  prevSticky,           \* lastExtractedValue when the last call began
  unread,               \* a chunk was appended since the last extractField
  skipped,              \* some chunk was not followed by an extractField
  wasReset,             \* reset() has been called on this parser
  twin,                 \* a parser constructed when reset() was last called
  stage,                \* "idle", "received", "parsed", "reparsed"
  raw,                  \* the text handed to parseAgentResponse
  response,             \* what parseAgentResponse(raw) returned
  reparsed,             \* what parseAgentResponse(response.reply) returned
  document              \* history: the JSON value that raw was written from

extractorVars == << buffer, lastExtractedValue, thrown, returned, askedField,
                    askedFields, hadValue, owner, prevReturned, prevSticky,
                    unread, skipped, wasReset, twin >>
agentVars == << stage, raw, response, reparsed, document >>

\* Module state of the embed entry point (index.tsx 657-660) and what its
\* functions act on: the host page and the theme.
VARIABLES
  isInitialized,        \* let isInitialized
  widgetContainer,      \* let widgetContainer: an element id or NoElement
  widgetMountNode,      \* let widgetMountNode: the container it is in, or NoElement
  createdContainer,     \* let createdContainer
  pageElements,         \* ids of the elements of the host page
  rendered,             \* a BulutWidget is rendered in the mount node
  runtimeConfig,        \* the config prop of the widget last rendered
  primary,              \* COLORS.primary
  \* history variables, read by the properties only
  lastOptions,          \* the options of the last call of init
  lastCall              \* how the last call of init or destroy ended

apiVars == << isInitialized, widgetContainer, widgetMountNode,
              createdContainer, pageElements, rendered, runtimeConfig,
              primary, lastOptions, lastCall >>

\* One call of executeToolCalls.
VARIABLES
  calls,                \* its argument: the tool calls, in array order
  progress,             \* per entry: "waiting", "running", "done", "failed"
  promise               \* what it returned: "none", "pending", "fulfilled", "rejected"

toolVars == << calls, progress, promise >>

\* The hands-free loop: the accessibility switch and the auto-listen
\* effect of index.tsx 566-588.
VARIABLES
  isAccessibilityEnabled,  \* useState isAccessibilityEnabled
  effectDeps            \* [accessibilityMode, isRecording, isProcessing] the effect last ran with

loopVars == << isAccessibilityEnabled, effectDeps >>

\* What the callbacks of a stream session read and write beside the
\* widget's refs, and the events of each session.
VARIABLES
  storedMessages,       \* localStorage bulut_chat_history after the initial messages
  storedSessionId,      \* localStorage bulut_session_id
  previewText,          \* the text of previewMessage when it shows a reply
  parser,               \* per call: the StreamingJsonParser of its session
  script,               \* per call: the events of its response, in the order the backend sends them
  arrived,              \* per call: how many of them have arrived
  invoked,              \* per call: the events whose callback has been invoked, in order
  \* history variable, read by the properties only
  msgOf                 \* per call: the id of the assistant message its session appended, or Null

sessionVars == << storedMessages, storedSessionId, previewText, parser,
                  script, arrived, invoked, msgOf >>

\* The <Bulut> components of react.tsx and the runs of their effect.
VARIABLES
  attached,             \* per component: mounted, its div in the document
  effects               \* the effect runs, oldest first: see NewEffect

reactVars == << attached, effects >>

textVars == << extractorVars, agentVars, apiVars, toolVars, reactVars, loopVars,
               sessionVars >>

widgetVars == << mounted, isOpen, projectId, hasAudioCtx, previewMessage, isRecordingRef,
           isProcessingRef, autoListenSuppressedRef, recorderRef, streamRef,
           audioContextRef, vadIntervalRef, silenceStartRef, audioChunksRef,
           activeControllerRef, pc, tracksLive, ctxOpen, intervalLive,
           recState, onstop, stopPending, speechDetected, sess, events,
           cancelled, runStart, blobSize, eventsAtStop, quiet, stoppedBy,
           assistantMsgIdRef, autoTimer >>

vars == << widgetVars, textVars >>

\* What the actions of one part of the model leave alone: the state of the
\* other parts.
utilVars == << extractorVars, agentVars, apiVars, toolVars, reactVars >>
stateVars == << isRecordingRef, isProcessingRef, autoListenSuppressedRef,
                recorderRef, streamRef, audioContextRef, vadIntervalRef,
                silenceStartRef, audioChunksRef, activeControllerRef, pc,
                ctxOpen, intervalLive, recState, onstop, stopPending,
                speechDetected, sess >>
offExtractorVars == << widgetVars, agentVars, apiVars, toolVars, reactVars, loopVars, sessionVars >>
offAgentVars == << widgetVars, extractorVars, apiVars, toolVars, reactVars, loopVars, sessionVars >>
offApiVars == << widgetVars, extractorVars, agentVars, toolVars, reactVars, loopVars, sessionVars >>
offToolVars == << widgetVars, extractorVars, agentVars, apiVars, reactVars, loopVars, sessionVars >>
offReactVars == << widgetVars, extractorVars, agentVars, toolVars, loopVars, sessionVars >>

\* A text is a sequence of symbols: punctuation characters and words.
\* new StreamingJsonParser(): an empty lexer and an empty sticky value.
NoText == << >>
NewParser == [buffer |-> NoText, lastExtractedValue |-> NoText]
ExtractorInit ==
  /\ buffer = NewParser.buffer
  /\ lastExtractedValue = NewParser.lastExtractedValue
  /\ thrown = FALSE
  /\ returned = NoText
  /\ askedField = NoText
  /\ askedFields = {}
  /\ hadValue = {}
  /\ owner = NoText
  /\ prevReturned = NoText
  /\ prevSticky = NoText
  /\ unread = FALSE
  /\ skipped = FALSE
  /\ wasReset = FALSE
  /\ twin = NewParser

\* No response has been parsed yet, and there is no value where a property
\* or a parse yields none.
NoResponse == [reply |-> NoText, toolCalls |-> << >>]
Undefined == [t |-> "undefined", v |-> << >>]
AgentInit ==
  /\ stage = "idle"
  /\ raw = NoText
  /\ response = NoResponse
  /\ reparsed = NoResponse
  /\ document = Undefined

\* A property of the options object that the caller left out, the defaults
\* of index.tsx 43-50 and the module state before the first call.
Omitted == "(omitted)"
PrimaryColor == << "#", "6", "C", "0", "3", "C", "1" >>
DEFAULT_CONFIG ==
  [backendBaseUrl |-> "https://api.bulut.lu",
   projectId |-> "",
   model |-> "google/gemini-3-flash-preview:nitro",
   voice |-> "zeynep",
   baseColor |-> PrimaryColor,
   agentName |-> "Bulut"]
NoElement == "(null)"
ApiInit ==
  /\ isInitialized = FALSE
  /\ widgetContainer = NoElement
  /\ widgetMountNode = NoElement
  /\ createdContainer = FALSE
  /\ pageElements = {}
  /\ rendered = FALSE
  /\ runtimeConfig = DEFAULT_CONFIG
  /\ primary = PrimaryColor
  /\ lastOptions = [containerId |-> Omitted, backendBaseUrl |-> Omitted,
                    projectId |-> Omitted, model |-> Omitted,
                    voice |-> Omitted, baseColor |-> NoText,
                    agentName |-> Omitted]
  /\ lastCall = "none"

\* executeToolCalls has not been called.
ToolInit ==
  /\ calls = << >>
  /\ progress = << >>
  /\ promise = "none"

\* Accessibility mode is off and the auto-listen effect has run once, at
\* mount, without scheduling anything.
Components == 1..MaxComponents
ReactInit ==
  /\ attached = [k \in Components |-> FALSE]
  /\ effects = << >>

LoopInit ==
  /\ isAccessibilityEnabled = FALSE
  /\ effectDeps = << FALSE, FALSE, FALSE >>

\* No message beyond the initial ones is stored and no response has begun.
NoScript == << >>
SessionInit ==
  /\ storedMessages = << >>
  /\ storedSessionId = NoText
  /\ previewText = NoText
  /\ parser = [c \in Calls |-> NewParser]
  /\ script = [c \in Calls |-> NoScript]
  /\ arrived = [c \in Calls |-> 0]
  /\ invoked = [c \in Calls |-> << >>]
  /\ msgOf = [c \in Calls |-> Null]

uiVars == << mounted, isOpen, projectId, hasAudioCtx, quiet >>
histVars == << cancelled, runStart, blobSize, eventsAtStop, stoppedBy >>

Init ==
  /\ mounted = TRUE
  /\ isOpen \in BOOLEAN
  /\ projectId \in BOOLEAN
  /\ hasAudioCtx \in BOOLEAN
  /\ previewMessage = "initial"
  /\ isRecordingRef = FALSE
  /\ isProcessingRef = FALSE
  /\ autoListenSuppressedRef = FALSE
  /\ recorderRef = Null
  /\ streamRef = Null
  /\ audioContextRef = Null
  /\ vadIntervalRef = Null
  /\ silenceStartRef = -1
  /\ audioChunksRef = 0
  /\ activeControllerRef = Null
  /\ assistantMsgIdRef = Null
  /\ autoTimer = "none"
  /\ pc = [c \in Calls |-> "unused"]
  /\ tracksLive = [c \in Calls |-> FALSE]
  /\ ctxOpen = [c \in Calls |-> FALSE]
  /\ intervalLive = [c \in Calls |-> FALSE]
  /\ recState = [c \in Calls |-> "none"]
  /\ onstop = [c \in Calls |-> "send"]
  /\ stopPending = [c \in Calls |-> FALSE]
  /\ speechDetected = [c \in Calls |-> FALSE]
  /\ sess = [c \in Calls |-> "none"]
  /\ events = [c \in Calls |-> 0]
  /\ cancelled = [c \in Calls |-> FALSE]
  /\ runStart = [c \in Calls |-> -1]
  /\ blobSize = [c \in Calls |-> -1]
  /\ eventsAtStop = [c \in Calls |-> -1]
  /\ quiet = FALSE
  /\ stoppedBy = [c \in Calls |-> "none"]
  /\ ExtractorInit
  /\ AgentInit
  /\ ApiInit
  /\ ToolInit
  /\ LoopInit
  /\ SessionInit
  /\ ReactInit

\* ---- cleanupRecording ---------------------------------------------------
\* The resources released are the ones the three refs point at, whichever
\* call created them.
CleanInterval(f, vi) == [c \in Calls |-> IF c = vi THEN FALSE ELSE f[c]]
CleanCtx(f, ac) == [c \in Calls |-> IF c = ac THEN FALSE ELSE f[c]]
CleanTracks(f, sr) == [c \in Calls |-> IF c = sr THEN FALSE ELSE f[c]]

cleanupRecording(sr) ==
  /\ intervalLive' = CleanInterval(intervalLive, vadIntervalRef)
  /\ vadIntervalRef' = Null
  /\ ctxOpen' = CleanCtx(ctxOpen, audioContextRef)
  /\ audioContextRef' = Null
  /\ tracksLive' = CleanTracks(tracksLive, sr)
  /\ streamRef' = Null
  /\ silenceStartRef' = -1

\* ---- startButtonRecording ----------------------------------------------
\* Up to the await of getUserMedia.  The early return of the guard leaves
\* the state unchanged.  Calls are numbered in the order they are made.
startButtonRecording(c) ==
  /\ pc[c] = "unused"
  /\ \A d \in Calls : d < c => pc[d] # "unused"
  /\ ~(isRecordingRef \/ isProcessingRef)
  /\ autoListenSuppressedRef' = FALSE
  /\ previewMessage' = "listening"
  /\ pc' = [pc EXCEPT ![c] = "awaitMic"]
  /\ UNCHANGED << uiVars, isRecordingRef, isProcessingRef, recorderRef,
                  streamRef, audioContextRef, vadIntervalRef, silenceStartRef,
                  audioChunksRef, activeControllerRef, assistantMsgIdRef,
                  tracksLive, ctxOpen, intervalLive, recState, onstop,
                  stopPending, speechDetected, sess, events, histVars >>

\* The microphone button of ChatButton, rendered while the window is closed.
StartButtonRecording(c) ==
  /\ mounted /\ ~isOpen
  /\ startButtonRecording(c)
  /\ UNCHANGED << textVars, autoTimer >>

\* Continuation after getUserMedia resolved: the rest of the try block runs
\* without suspension.  threw = TRUE: the MediaRecorder constructor throws
\* and the catch block runs with streamRef already set.
MicAcquired(c, threw) ==
  /\ pc[c] = "awaitMic"
  /\ IF threw
       THEN /\ pc' = [pc EXCEPT ![c] = "failed"]
            /\ previewMessage' = "null"
            /\ cleanupRecording(c)
            /\ isRecordingRef' = FALSE
            /\ UNCHANGED << recorderRef, audioChunksRef, recState, onstop,
                            speechDetected, autoListenSuppressedRef >>
       ELSE /\ pc' = [pc EXCEPT ![c] = "started"]
            /\ streamRef' = c
            /\ tracksLive' = [tracksLive EXCEPT ![c] = TRUE]
            /\ recorderRef' = c
            /\ audioChunksRef' = 0
            /\ onstop' = [onstop EXCEPT ![c] = "send"]
            /\ IF hasAudioCtx
                 THEN /\ audioContextRef' = c
                      /\ ctxOpen' = [ctxOpen EXCEPT ![c] = TRUE]
                      /\ vadIntervalRef' = c
                      /\ intervalLive' = [intervalLive EXCEPT ![c] = TRUE]
                 ELSE UNCHANGED << audioContextRef, ctxOpen, vadIntervalRef,
                                   intervalLive >>
            /\ speechDetected' = [speechDetected EXCEPT ![c] = FALSE]
            /\ recState' = [recState EXCEPT ![c] = "recording"]
            /\ isRecordingRef' = TRUE
            /\ UNCHANGED << previewMessage, silenceStartRef,
                            autoListenSuppressedRef >>
  /\ UNCHANGED << textVars, assistantMsgIdRef, autoTimer, uiVars, isProcessingRef, activeControllerRef, 
                  stopPending, sess, events, histVars >>

\* Continuation after getUserMedia rejected: the catch block.  permission =
\* TRUE: the error message contains "permission".
MicRejected(c, permission) ==
  /\ pc[c] = "awaitMic"
  /\ pc' = [pc EXCEPT ![c] = "failed"]
  /\ autoListenSuppressedRef' = (permission \/ autoListenSuppressedRef)
  /\ previewMessage' = "null"
  /\ cleanupRecording(streamRef)
  /\ isRecordingRef' = FALSE
  /\ UNCHANGED << textVars, assistantMsgIdRef, autoTimer, uiVars, isProcessingRef, recorderRef, audioChunksRef,
                  activeControllerRef,  recState, onstop, stopPending,
                  speechDetected, sess, events, histVars >>

\* ---- the sampling interval callback of call c ---------------------------
\* d is the time since the clock was last read, volume the analyser's mean
\* amplitude in hundredths.  `recorder' in the callback is the recorder of
\* the same call, not recorderRef.
\* The auto-stop condition of a below-threshold tick of call c, `since' ms
\* after the instant in silenceStartRef.
SilenceExpired(c, since) ==
  speechDetected[c] /\ since > SILENCE_DURATION_MS

RunClock(d) ==
  [k \in Calls |-> IF recState[k] = "recording" THEN Elapsed(runStart[k], d)
                                                ELSE runStart[k]]

\* if (!isRecordingRef.current || recorder.state === "inactive"): the tick
\* releases the capture resources and returns.
TickReleases_IgnoringRecorder(c) == ~isRecordingRef
TickReleases(c) == ~isRecordingRef \/ recState[c] = "inactive"

VadTick(c, d, volume) ==
  LET since == Elapsed(silenceStartRef, d)
      run == RunClock(d)
  IN
  /\ intervalLive[c]
  /\ quiet => volume < VAD_THRESHOLD
  /\ IF TickReleases(c)
       THEN /\ cleanupRecording(streamRef)
            /\ runStart' = run
            /\ UNCHANGED << recState, stopPending, speechDetected, stoppedBy >>
       ELSE /\ IF volume < VAD_THRESHOLD
                 THEN /\ IF silenceStartRef = -1
                           THEN /\ silenceStartRef' = 0
                                /\ UNCHANGED << recState, stopPending, stoppedBy >>
                           ELSE /\ IF SilenceExpired(c, since)
                                     THEN /\ recState' = [recState EXCEPT ![c] = "inactive"]
                                          /\ stopPending' = [stopPending EXCEPT ![c] = TRUE]
                                          /\ stoppedBy' = [stoppedBy EXCEPT ![c] = "vad"]
                                     ELSE UNCHANGED << recState, stopPending, stoppedBy >>
                                /\ silenceStartRef' = since
                      /\ runStart' = [run EXCEPT ![c] = IF @ = -1 THEN 0 ELSE @]
                      /\ UNCHANGED speechDetected
                 ELSE /\ speechDetected' = [speechDetected EXCEPT ![c] = TRUE]
                      /\ silenceStartRef' = -1
                      /\ runStart' = [run EXCEPT ![c] = -1]
                      /\ UNCHANGED << recState, stopPending, stoppedBy >>
            /\ UNCHANGED << intervalLive, vadIntervalRef, ctxOpen,
                            audioContextRef, tracksLive, streamRef >>
  /\ UNCHANGED << textVars, assistantMsgIdRef, autoTimer, uiVars, previewMessage, isRecordingRef, isProcessingRef,
                  autoListenSuppressedRef, recorderRef, audioChunksRef,
                  activeControllerRef, pc, onstop, sess, events, cancelled,
                  blobSize, eventsAtStop >>

\* From some instant of a session that has heard speech on, the microphone
\* input stays below the threshold.
GoQuiet ==
  /\ ~quiet
  /\ \E c \in Calls : speechDetected[c] /\ recState[c] = "recording"
  /\ quiet' = TRUE
  /\ UNCHANGED << textVars, assistantMsgIdRef, autoTimer, mounted, isOpen, projectId, hasAudioCtx, previewMessage,
                  isRecordingRef, isProcessingRef, autoListenSuppressedRef,
                  recorderRef, streamRef, audioContextRef, vadIntervalRef,
                  silenceStartRef, audioChunksRef, activeControllerRef, pc,
                  tracksLive, ctxOpen, intervalLive, recState, onstop,
                  stopPending, speechDetected, sess, events, histVars >>

\* ---- MediaRecorder events ----------------------------------------------
\* recorder.ondataavailable with a non-empty chunk (timeslice 200 ms).
DataAvailable(c) ==
  /\ recState[c] = "recording"
  /\ audioChunksRef < MaxChunks
  /\ audioChunksRef' = audioChunksRef + 1
  /\ UNCHANGED << textVars, assistantMsgIdRef, autoTimer, uiVars, previewMessage, isRecordingRef, isProcessingRef,
                  autoListenSuppressedRef, recorderRef, streamRef,
                  audioContextRef, vadIntervalRef, silenceStartRef,
                  activeControllerRef, pc, tracksLive, ctxOpen,
                  intervalLive, recState, onstop, stopPending, speechDetected,
                  sess, events, histVars >>

\* The platform stops a recorder whose stream has no live track left.
TracksEnded(c) ==
  /\ recState[c] = "recording"
  /\ ~tracksLive[c]
  /\ recState' = [recState EXCEPT ![c] = "inactive"]
  /\ stopPending' = [stopPending EXCEPT ![c] = TRUE]
  /\ stoppedBy' = [stoppedBy EXCEPT ![c] = "tracks"]
  /\ UNCHANGED << textVars, assistantMsgIdRef, autoTimer, uiVars, previewMessage, isRecordingRef, isProcessingRef,
                  autoListenSuppressedRef, recorderRef, streamRef,
                  audioContextRef, vadIntervalRef, silenceStartRef,
                  audioChunksRef, activeControllerRef, pc, tracksLive,
                  ctxOpen, intervalLive, onstop, speechDetected, sess, events,
                  cancelled, runStart, blobSize, eventsAtStop >>

BlobEmpty_Never(chunks) == FALSE

\* blob.size === 0
BlobEmpty(chunks) == chunks = 0

\* The synchronous part of sendAudioAndPreview, up to `await controller.done'.
sendAudioAndPreview(c) ==
  IF ~projectId
    THEN UNCHANGED << isProcessingRef, previewMessage, sess, activeControllerRef,
                      assistantMsgIdRef >>
    ELSE /\ assistantMsgIdRef' = Null
         /\ isProcessingRef' = TRUE
         /\ previewMessage' = "thinking"
         /\ sess' = [sess EXCEPT ![c] = "active"]
         /\ activeControllerRef' = c

\* Delivery of the stop event of recorder c: the last dataavailable (with or
\* without data), then the installed onstop handler.
RecorderStopEvent(c, lastChunk) ==
  LET chunks == IF lastChunk THEN Min(audioChunksRef + 1, MaxChunks)
                             ELSE audioChunksRef
  IN
  /\ stopPending[c]
  /\ stopPending' = [stopPending EXCEPT ![c] = FALSE]
  /\ isRecordingRef' = FALSE
  /\ cleanupRecording(streamRef)
  /\ IF onstop[c] = "send"
       THEN /\ audioChunksRef' = 0
            /\ blobSize' = [blobSize EXCEPT ![c] = chunks]
            /\ IF BlobEmpty(chunks)
                 THEN /\ previewMessage' = "null"
                      /\ UNCHANGED << isProcessingRef, sess, activeControllerRef,
                                      assistantMsgIdRef >>
                 ELSE sendAudioAndPreview(c)
       ELSE /\ audioChunksRef' = chunks
            /\ previewMessage' = "null"
            /\ UNCHANGED << blobSize, isProcessingRef, sess, activeControllerRef,
                            assistantMsgIdRef >>
  /\ UNCHANGED << textVars, autoTimer, uiVars, autoListenSuppressedRef, recorderRef,  pc,
                  recState, onstop, speechDetected, events, cancelled,
                  runStart, eventsAtStop, stoppedBy >>

\* ---- cancelRecording ----------------------------------------------------
\* Call c is Listening: its recorder was started and its stop event has not
\* been delivered.
Listening(c) ==
  isRecordingRef /\ pc[c] = "started" /\ (recState[c] = "recording" \/ stopPending[c])

cancelRecording ==
  /\ cancelled' = [c \in Calls |->
                     cancelled[c] \/ (c = recorderRef /\ Listening(c))]
  /\ IF recorderRef # Null /\ recState[recorderRef] # "inactive"
       THEN /\ onstop' = [onstop EXCEPT ![recorderRef] = "discard"]
            /\ recState' = [recState EXCEPT ![recorderRef] = "inactive"]
            /\ stopPending' = [stopPending EXCEPT ![recorderRef] = TRUE]
            /\ stoppedBy' = [stoppedBy EXCEPT ![recorderRef] = "cancel"]
            /\ UNCHANGED << isRecordingRef, previewMessage, intervalLive,
                            vadIntervalRef, ctxOpen, audioContextRef,
                            tracksLive, streamRef, silenceStartRef >>
       ELSE /\ isRecordingRef' = FALSE
            /\ cleanupRecording(streamRef)
            /\ previewMessage' = "null"
            /\ UNCHANGED << onstop, recState, stopPending, stoppedBy >>

\* The cancel button of ChatButton, shown while the widget is recording.
CancelClick ==
  /\ mounted /\ ~isOpen
  /\ isRecordingRef
  /\ cancelRecording
  /\ UNCHANGED << textVars, assistantMsgIdRef, autoTimer, uiVars, isProcessingRef, autoListenSuppressedRef,
                  recorderRef, audioChunksRef, activeControllerRef, pc,
                  speechDetected, sess, events, runStart, blobSize,
                  eventsAtStop >>

\* controller.stop() of the controller in activeControllerRef.
StopController(s) ==
  [c \in Calls |-> IF c = activeControllerRef /\ s[c] = "active"
                     THEN "stopped" ELSE s[c]]

StopMark(e) ==
  [c \in Calls |-> IF c = activeControllerRef /\ sess[c] = "active"
                     THEN events[c] ELSE e[c]]

\* toggleWidget, reached from the bubble and the preview of ChatButton,
\* which is rendered only while the window is closed: newState is TRUE.
ToggleWidget ==
  /\ mounted /\ ~isOpen
  /\ sess' = StopController(sess)
  /\ eventsAtStop' = StopMark(eventsAtStop)
  /\ cancelRecording
  /\ isProcessingRef' = FALSE
  /\ isOpen' = TRUE
  /\ UNCHANGED << textVars, assistantMsgIdRef, autoTimer, mounted, projectId, hasAudioCtx, quiet,
                  autoListenSuppressedRef, recorderRef, audioChunksRef,
                  activeControllerRef, pc, speechDetected, events, runStart,
                  blobSize >>

HandleClose ==
  /\ mounted /\ isOpen
  /\ isOpen' = FALSE
  /\ previewMessage' = IF previewMessage = "null" THEN "initial" ELSE previewMessage
  /\ UNCHANGED << textVars, assistantMsgIdRef, autoTimer, mounted, projectId, hasAudioCtx, quiet, isRecordingRef,
                  isProcessingRef, autoListenSuppressedRef, recorderRef,
                  streamRef, audioContextRef, vadIntervalRef, silenceStartRef,
                  audioChunksRef, activeControllerRef, pc, tracksLive,
                  ctxOpen, intervalLive, recState, onstop, stopPending,
                  speechDetected, sess, events, histVars >>

\* The unmount cleanup effect; unmounting also runs the cleanup of the
\* auto-listen effect, which clears its timeout.
Unmount ==
  /\ mounted
  /\ mounted' = FALSE
  /\ sess' = StopController(sess)
  /\ eventsAtStop' = StopMark(eventsAtStop)
  /\ activeControllerRef' = Null
  /\ cancelRecording
  /\ autoTimer' = "none"
  /\ UNCHANGED << textVars, assistantMsgIdRef, isOpen, projectId, hasAudioCtx, quiet, isProcessingRef,
                  autoListenSuppressedRef, recorderRef, audioChunksRef, 
                  pc, speechDetected, events, runStart, blobSize >>

Tick(c) == \E d \in TickDelays, volume \in Volumes : VadTick(c, d, volume)

\* ---- the stream session of call c --------------------------------------
EventKinds == {"transcription", "delta", "done", "audio", "error"}

Delivers_AfterStop(c) == sess[c] \in {"active", "stopped"}

\* The client invokes callbacks of a session until its controller's stop()
\* has returned or its completion signal has settled.
Delivers(c) == sess[c] = "active"

\* One framed event of the response, delivered to its callback.
StreamEvent(c, kind) ==
  /\ Delivers(c)
  /\ events[c] < MaxEvents
  /\ events' = [events EXCEPT ![c] = @ + 1]
  /\ previewMessage' = CASE kind = "delta" -> "text"
                         [] kind = "done" -> "final"
                         [] kind = "error" -> "null"
                         [] OTHER -> previewMessage
  /\ UNCHANGED << textVars, assistantMsgIdRef, autoTimer, uiVars, isRecordingRef, isProcessingRef,
                  autoListenSuppressedRef, recorderRef, streamRef,
                  audioContextRef, vadIntervalRef, silenceStartRef,
                  audioChunksRef, activeControllerRef, pc, tracksLive,
                  ctxOpen, intervalLive, recState, onstop, stopPending,
                  speechDetected, sess, histVars >>

ProcessingAfterDone_OnlyOnSuccess(rejected) == rejected /\ isProcessingRef

\* What the try / catch / finally of sendAudioAndPreview leaves in
\* isProcessingRef and activeControllerRef once controller.done has settled.
ProcessingAfterDone(rejected) == FALSE
ControllerAfterDone_KeptOnRejection(rejected) ==
  IF rejected THEN activeControllerRef ELSE Null
ControllerAfterDone(rejected) == Null

\* controller.done settles: the catch block (on rejection) and the finally
\* block of sendAudioAndPreview.
DoneSettles(c, rejected) ==
  /\ sess[c] \in {"active", "stopped"}
  /\ sess' = [sess EXCEPT ![c] = "settled"]
  /\ previewMessage' = IF rejected THEN "null" ELSE previewMessage
  /\ activeControllerRef' = ControllerAfterDone(rejected)
  /\ isProcessingRef' = ProcessingAfterDone(rejected)
  /\ UNCHANGED << textVars, assistantMsgIdRef, autoTimer, uiVars, isRecordingRef, autoListenSuppressedRef,
                  recorderRef, streamRef, audioContextRef, vadIntervalRef,
                  silenceStartRef, audioChunksRef,  pc, tracksLive,
                  ctxOpen, intervalLive, recState, onstop, stopPending,
                  speechDetected, events, histVars >>

Next ==
  \/ \E c \in Calls : StartButtonRecording(c)
  \/ \E c \in Calls, threw \in BOOLEAN : MicAcquired(c, threw)
  \/ \E c \in Calls, permission \in BOOLEAN : MicRejected(c, permission)
  \/ \E c \in Calls : Tick(c)
  \/ GoQuiet
  \/ \E c \in Calls : DataAvailable(c)
  \/ \E c \in Calls : TracksEnded(c)
  \/ \E c \in Calls, lastChunk \in BOOLEAN : RecorderStopEvent(c, lastChunk)
  \/ CancelClick
  \/ ToggleWidget
  \/ HandleClose
  \/ Unmount
  \/ \E c \in Calls, kind \in EventKinds : StreamEvent(c, kind)
  \/ \E c \in Calls, rejected \in BOOLEAN : DoneSettles(c, rejected)

Spec == Init /\ [][Next]_vars

\* Every scheduled sampling interval keeps firing, and the platform delivers
\* the recorder events it has queued.
Fairness ==
  \A c \in Calls : WF_vars(Tick(c)) /\ WF_vars(TracksEnded(c))
FairSpec == Spec /\ Fairness

\* ---- properties ---------------------------------------------------------

\* C1: the recording flag and the processing flag are never both true.
C1_OnePhase == ~(isRecordingRef /\ isProcessingRef)

MicHolders == {c \in Calls : pc[c] = "awaitMic" \/ tracksLive[c]}

\* C2: at most one microphone acquisition is pending or held at any time,
\* whatever the interleaving of start calls and acquisitions.
C2_OneMicrophone == Cardinality(MicHolders) <= 1

\* C3: a recording session that cancelRecording was invoked on while the
\* widget was Listening never starts an upload.
C3_CancelDiscards == \A c \in Calls : cancelled[c] => sess[c] = "none"

ActiveSessions == {c \in Calls : sess[c] = "active"}

\* C4: at most one stream session is in flight and not cancelled.
C4_OneActiveSession == Cardinality(ActiveSessions) <= 1

VadStops(c) == stoppedBy[c] = "none" /\ stoppedBy'[c] = "vad"

\* C6: the silence detector stops recorder c only at a tick of a session
\* that has heard an above-threshold sample and whose current run of
\* below-threshold samples has lasted more than SILENCE_DURATION_MS.
C6_StopOnlyAfterSpeechAndSilence ==
  [][\A c \in Calls : VadStops(c) =>
        speechDetected[c] /\ runStart'[c] > SILENCE_DURATION_MS]_vars

\* C7: once a session has heard speech and the input has fallen silent for
\* good, its recorder is eventually stopped.
C7_SilenceStopsRecorder ==
  \A c \in Calls :
    (quiet /\ speechDetected[c] /\ recState[c] = "recording")
      ~> (recState[c] # "recording")

NoCapture ==
  /\ streamRef = Null /\ audioContextRef = Null /\ vadIntervalRef = Null
  /\ \A c \in Calls : ~tracksLive[c] /\ ~ctxOpen[c] /\ ~intervalLive[c]

\* C8: capture resources are released whenever the widget is not Listening
\* and no acquisition is pending, and every live stream is the one in
\* streamRef.
C8_ResourcesReleased ==
  /\ (~isRecordingRef /\ \A c \in Calls : pc[c] # "awaitMic") => NoCapture
  /\ \A c \in Calls : tracksLive[c] => streamRef = c

Settles(c) == sess[c] \in {"active", "stopped"} /\ sess'[c] = "settled"

\* C9: the step in which the completion signal of a session settles leaves
\* the processing flag false and the active-controller reference null.
C9_ProcessingEnds ==
  [][\A c \in Calls : Settles(c) =>
        ~isProcessingRef' /\ activeControllerRef' = Null]_vars
C9_Witness ==
  \E c \in Calls : sess[c] = "settled" /\ previewMessage = "null" /\ ~isProcessingRef

EmptyStop(c) == blobSize[c] = -1 /\ blobSize'[c] = 0

\* C10: a recorder that stops with an empty blob starts no upload, then or
\* later, and does not set the processing flag; the recording flag is false.
C10_EmptyAudioToIdle ==
  /\ [](\A c \in Calls : blobSize[c] = 0 => sess[c] = "none")
  /\ [][\A c \in Calls : EmptyStop(c) =>
          /\ ~isRecordingRef'
          /\ isProcessingRef' = isProcessingRef
          /\ sess' = sess]_vars
C10_Witness ==
  \E c \in Calls : blobSize[c] = 0 /\ projectId /\ ~isRecordingRef /\ ~isProcessingRef

\* C33: while a session is in flight and not stopped, the processing flag
\* is true and the active-controller reference is that session's
\* controller; the late cleanup of a session stopped by opening the chat
\* window clears neither.
C33_LateCleanupSparesNewSession ==
  \A c \in Calls :
    sess[c] = "active" => isProcessingRef /\ activeControllerRef = c

\* C34: when cancelRecording has run while a startButtonRecording call was
\* awaiting the microphone, that call starts no recording when the
\* acquisition succeeds.  A call is made with the window closed and the
\* widget mounted, so a call that awaits with the window open or the widget
\* unmounted has seen toggleWidget or the unmount cleanup, and with it
\* cancelRecording, since it was made.
C34_CancelledStartStaysCancelled ==
  [][ \A c \in Calls :
        pc[c] = "awaitMic" /\ (isOpen \/ ~mounted) =>
          /\ recState'[c] # "recording"
          /\ isRecordingRef' => isRecordingRef
    ]_vars

\* C35: recorder.stop() is called on a recorder that is recording, and at
\* most once per recorder, by the silence detector and by cancelRecording
\* (also through toggleWidget and unmount); on an inactive recorder nothing
\* calls it, and a tick that finds the recorder inactive leaves it as it is.
StopCalled(c) ==
  /\ stoppedBy'[c] \in {"vad", "cancel"}
  /\ stopPending'[c]
  /\ ~stopPending[c] \/ stoppedBy'[c] # stoppedBy[c]
C35_StopOnlyWhileRecording ==
  [][ \A c \in Calls :
        /\ StopCalled(c) => recState[c] = "recording" /\ stoppedBy[c] = "none"
        /\ recState[c] = "inactive" =>
             recState'[c] = "inactive" /\ stoppedBy'[c] = stoppedBy[c]
    ]_vars

\* The only call made: its recorder was asked to stop, its stop event is
\* still to come, and a tick has found it inactive and released the capture
\* resources.
C35_Witness ==
  \E c \in Calls :
    /\ \A d \in Calls \ {c} : pc[d] = "unused"
    /\ stoppedBy[c] \in {"vad", "cancel"}
    /\ recState[c] = "inactive" /\ stopPending[c]
    /\ isRecordingRef
    /\ ~intervalLive[c] /\ vadIntervalRef = Null /\ ~tracksLive[c]

\* ---- texts and JSON -----------------------------------------------------
\* The punctuation symbols of a text; every other symbol is a word.
LB == "{"
RB == "}"
LK == "["
RK == "]"
QT == "dq"     \* the double quote
CL == ":"
CM == ","
SP == " "
FENCE == "fence" \* three backticks
Numerals == {"7"}
Literals == {"null", "true"}
Punctuation == {LB, RB, LK, RK, QT, CL, CM, SP, FENCE}

\* JSON values: the kind, and the text or the parts.
StrVal(w) == [t |-> "str", v |-> w]
NumVal(w) == [t |-> "num", v |-> w]
LitVal(w) == [t |-> "lit", v |-> w]
ObjVal(members) == [t |-> "obj", v |-> members]
ArrVal(elems) == [t |-> "arr", v |-> elems]
Member(key, val) == << key, val >>

\* JSON.parse, as a recursive descent over the symbols: e is the position of
\* the value's last symbol, 0 when there is no value at i (a SyntaxError).
\* Strings hold words and punctuation other than the quote; there are no
\* escapes.
NoParse == [e |-> 0, val |-> Undefined]

RECURSIVE Ws(_, _)
Ws(s, i) == IF i <= Len(s) /\ s[i] = SP THEN Ws(s, i + 1) ELSE i

RECURSIVE StrEnd(_, _)
StrEnd(s, i) ==
  IF i > Len(s) THEN 0 ELSE IF s[i] = QT THEN i ELSE StrEnd(s, i + 1)

RECURSIVE ParseValue(_, _)
RECURSIVE ParseMembers(_, _, _)
RECURSIVE ParseElems(_, _, _)
ParseValue(s, i0) ==
  LET i == Ws(s, i0) IN
  IF i > Len(s) THEN NoParse
  ELSE IF s[i] = QT
    THEN LET e == StrEnd(s, i + 1) IN
         IF e = 0 THEN NoParse
         ELSE [e |-> e, val |-> StrVal(SubSeq(s, i + 1, e - 1))]
  ELSE IF s[i] \in Numerals THEN [e |-> i, val |-> NumVal(<< s[i] >>)]
  ELSE IF s[i] \in Literals THEN [e |-> i, val |-> LitVal(<< s[i] >>)]
  ELSE IF s[i] = LB
    THEN LET j == Ws(s, i + 1) IN
         IF j <= Len(s) /\ s[j] = RB THEN [e |-> j, val |-> ObjVal(<< >>)]
         ELSE ParseMembers(s, j, << >>)
  ELSE IF s[i] = LK
    THEN LET j == Ws(s, i + 1) IN
         IF j <= Len(s) /\ s[j] = RK THEN [e |-> j, val |-> ArrVal(<< >>)]
         ELSE ParseElems(s, j, << >>)
  ELSE NoParse

ParseMembers(s, i, acc) ==
  IF i > Len(s) \/ s[i] # QT THEN NoParse
  ELSE LET ke == StrEnd(s, i + 1) IN
       IF ke = 0 THEN NoParse
       ELSE LET c == Ws(s, ke + 1) IN
            IF c > Len(s) \/ s[c] # CL THEN NoParse
            ELSE LET pv == ParseValue(s, c + 1) IN
                 IF pv.e = 0 THEN NoParse
                 ELSE LET k == Ws(s, pv.e + 1)
                          members == Append(acc, Member(SubSeq(s, i + 1, ke - 1), pv.val))
                      IN IF k > Len(s) THEN NoParse
                         ELSE IF s[k] = RB THEN [e |-> k, val |-> ObjVal(members)]
                         ELSE IF s[k] = CM THEN ParseMembers(s, Ws(s, k + 1), members)
                         ELSE NoParse

ParseElems(s, i, acc) ==
  LET pv == ParseValue(s, i) IN
  IF pv.e = 0 THEN NoParse
  ELSE LET k == Ws(s, pv.e + 1)
           elems == Append(acc, pv.val)
       IN IF k > Len(s) THEN NoParse
          ELSE IF s[k] = RK THEN [e |-> k, val |-> ArrVal(elems)]
          ELSE IF s[k] = CM THEN ParseElems(s, k + 1, elems)
          ELSE NoParse

\* ok is FALSE where JSON.parse throws.
JSONParse(s) ==
  LET pv == ParseValue(s, 1) IN
  IF pv.e # 0 /\ Ws(s, pv.e + 1) > Len(s)
    THEN [ok |-> TRUE, val |-> pv.val]
    ELSE [ok |-> FALSE, val |-> Undefined]

\* key in parsed, and parsed[key]: of the members with that key the last one
\* is the property. An array has indices and length, none of them a word.
Max(S) == CHOOSE x \in S : \A y \in S : y <= x
KeyAt(parsed, key) ==
  IF parsed.t = "obj"
    THEN {k \in 1..Len(parsed.v) : parsed.v[k][1] = key}
    ELSE {}
HasKey(parsed, key) == KeyAt(parsed, key) # {}
Get(parsed, key) ==
  IF HasKey(parsed, key) THEN parsed.v[Max(KeyAt(parsed, key))][2] ELSE Undefined


\* ---- StreamingJsonParser ------------------------------------------------
\* Lexer.CompleteJSON: a closing quote when the quotes are odd in number,
\* then one closing brace for each brace left open. String.repeat throws a
\* RangeError on a negative count.
Count(s, sym) == Cardinality({k \in 1..Len(s) : s[k] = sym})
Repeat(sym, n) == [k \in 1..n |-> sym]
CompleteJSON(buf) ==
  LET quoted == IF Count(buf, QT) % 2 = 1 THEN buf \o << QT >> ELSE buf
      missing == Count(quoted, LB) - Count(quoted, RB)
  IN IF missing < 0
       THEN [threw |-> TRUE, text |-> quoted]
       ELSE [threw |-> FALSE, text |-> quoted \o Repeat(RB, missing)]

\* The sticky value is kept when the field reads as the empty string and a
\* value was extracted before.
Keeps_Never(value, last) == FALSE
Keeps_Once(value, last) == last # NoText
Keeps(value, last) == value = NoText /\ last # NoText

\* The try block of extractField with the sticky value at last: whether it
\* threw, whether it assigned lastExtractedValue, and the sticky value after.
TryBlock(buf, fieldName, last) ==
  LET kept == [threw |-> FALSE, assigned |-> FALSE, sticky |-> last]
      completeJson == CompleteJSON(buf)
      parsed == JSONParse(completeJson.text)
      value == Get(parsed.val, fieldName)
  IN IF completeJson.threw \/ ~parsed.ok THEN [kept EXCEPT !.threw = TRUE]
     ELSE IF HasKey(parsed.val, fieldName) /\ value.t = "str" /\ ~Keeps(value.v, last)
       THEN [threw |-> FALSE, assigned |-> TRUE, sticky |-> value.v]
     ELSE kept

\* The catch block is empty: what the try block throws ends there.
Catch_Rethrows(threw) == threw
Catch(threw) == FALSE

\* The texts the backend can send: the documents of the tests, documents
\* that repeat a key, hold two fields, a number, a nested object or no
\* object, and texts that are not JSON. String values hold words only.
Quoted(w) == << QT >> \o w \o << QT >>
Reply == << "reply" >>
Other == << "other" >>
Fields == {Reply, Other}
Streams ==
  { << LB >> \o Quoted(Reply) \o << CL, SP >> \o Quoted(<< "Hel", "lo" >>) \o << RB >>,
    << LB >> \o Quoted(Reply) \o << CL >> \o Quoted(<< "a" >>) \o << CM >>
            \o Quoted(Reply) \o << CL >> \o Quoted(NoText) \o << RB >>,
    << LB >> \o Quoted(Reply) \o << CL >> \o Quoted(<< "a" >>) \o << CM >>
            \o Quoted(Reply) \o << CL, "7", RB >>,
    << LB >> \o Quoted(Reply) \o << CL >> \o Quoted(<< "a" >>) \o << CM >>
            \o Quoted(Other) \o << CL >> \o Quoted(NoText) \o << RB >>,
    << LB >> \o Quoted(Reply) \o << CL >> \o Quoted(NoText) \o << CM >>
            \o Quoted(Other) \o << CL >> \o Quoted(<< "b" >>) \o << RB >>,
    << LB >> \o Quoted(Reply) \o << CL, "7", RB >>,
    << LB >> \o Quoted(Other) \o << CL, LB >> \o Quoted(Reply) \o << CL >>
            \o Quoted(<< "a" >>) \o << RB, RB >>,
    << LB >> \o Quoted(Reply) \o << CL >> \o Quoted(<< "a" >>) \o << RB, RB >>,
    << LK >> \o Quoted(Reply) \o << RK >>,
    Quoted(<< "a" >>),
    << "Hel", "lo" >> }
Chunks ==
  UNION {{SubSeq(s, i, j) : i \in 1..Len(s), j \in 1..Len(s)} : s \in Streams} \ {NoText}
IsPrefix(p, s) == Len(p) <= Len(s) /\ SubSeq(s, 1, Len(p)) = p

\* appendChunk(chunk)
AppendChunk(chunk) ==
  /\ \E s \in Streams : IsPrefix(buffer \o chunk, s)
  /\ buffer' = buffer \o chunk
  /\ unread' = TRUE
  /\ skipped' = (skipped \/ unread)
  /\ twin' = IF wasReset THEN [twin EXCEPT !.buffer = @ \o chunk] ELSE twin
  /\ UNCHANGED << lastExtractedValue, thrown, returned, askedField, askedFields,
                  hadValue, owner, prevReturned, prevSticky, wasReset >>
  /\ UNCHANGED << offExtractorVars >>

\* extractField(fieldName)
ExtractField(fieldName) ==
  LET try == TryBlock(buffer, fieldName, lastExtractedValue) IN
  /\ thrown' = (thrown \/ Catch(try.threw))
  /\ lastExtractedValue' = try.sticky
  /\ returned' = try.sticky
  /\ askedField' = fieldName
  /\ askedFields' = askedFields \cup {fieldName}
  /\ hadValue' = IF returned # NoText THEN hadValue \cup {askedField} ELSE hadValue
  /\ owner' = IF try.assigned THEN fieldName ELSE owner
  /\ prevReturned' = returned
  /\ prevSticky' = lastExtractedValue
  /\ unread' = FALSE
  /\ twin' = IF wasReset
               THEN [twin EXCEPT !.lastExtractedValue = TryBlock(twin.buffer, fieldName, @).sticky]
               ELSE twin
  /\ UNCHANGED << buffer, skipped, wasReset >>
  /\ UNCHANGED << offExtractorVars >>

\* reset(): a new lexer and an empty sticky value.
ResetParser_KeepsSticky(last) == [buffer |-> NoText, lastExtractedValue |-> last]
ResetParser(last) == [buffer |-> NoText, lastExtractedValue |-> NoText]
Reset ==
  /\ buffer # NoText
  /\ buffer' = ResetParser(lastExtractedValue).buffer
  /\ lastExtractedValue' = ResetParser(lastExtractedValue).lastExtractedValue
  /\ wasReset' = TRUE
  /\ twin' = NewParser
  /\ returned' = NoText
  /\ askedField' = NoText
  /\ askedFields' = {}
  /\ hadValue' = {}
  /\ owner' = NoText
  /\ prevReturned' = NoText
  /\ prevSticky' = NoText
  /\ unread' = FALSE
  /\ skipped' = FALSE
  /\ UNCHANGED << thrown, offExtractorVars >>

ExtractorNext ==
  \/ \E chunk \in Chunks : AppendChunk(chunk)
  \/ \E fieldName \in Fields : ExtractField(fieldName)
  \/ Reset

\* The text utilities run beside a widget that is left as init() mounted it.
TextInit == Init /\ ~isOpen /\ projectId /\ hasAudioCtx
ExtractorSpec == TextInit /\ [][ExtractorNext]_vars


\* ---- properties of StreamingJsonParser ----------------------------------
\* What the field reads as in the repaired buffer, Undefined when the repair
\* or the parse throws or the document has no such key.
Reading(buf, fieldName) ==
  LET completeJson == CompleteJSON(buf)
      parsed == JSONParse(completeJson.text)
  IN IF completeJson.threw \/ ~parsed.ok THEN Undefined
     ELSE Get(parsed.val, fieldName)
Unavailable(buf, fieldName) == Reading(buf, fieldName).t # "str"

\* A complete JSON document parses as it is; OneShot is what a new parser
\* returns for the field after one appendChunk of the whole document.
Complete(doc) == JSONParse(doc).ok
OneShot(doc, fieldName) == TryBlock(doc, fieldName, NewParser.lastExtractedValue).sticky
DistinctKeys(doc) ==
  LET parsed == JSONParse(doc).val IN
  parsed.t = "obj" => \A j, k \in 1..Len(parsed.v) : parsed.v[j][1] = parsed.v[k][1] => j = k
\* The last call saw the whole of a complete document, and every chunk of it
\* was followed by a call for the same field.
FedInChunks ==
  /\ askedField # NoText
  /\ ~unread /\ ~skipped
  /\ askedFields = {askedField}
  /\ Complete(buffer)

\* C11: for every complete JSON document and every splitting of it into
\* chunks, feeding the chunks in order with extractField called after each
\* one ends with the value that one appendChunk of the whole document gives.
C11_SplitInvariant == FedInChunks => returned = OneShot(buffer, askedField)

\* C11, amended: the same, for the documents whose keys are all different.
C11_SplitInvariantDistinctKeys ==
  FedInChunks /\ DistinctKeys(buffer) => returned = OneShot(buffer, askedField)
C11_Witness ==
  /\ FedInChunks /\ DistinctKeys(buffer)
  /\ prevReturned # NoText /\ returned # prevReturned
  /\ returned = OneShot(buffer, askedField)

\* C12: once extractField has returned a non-empty string for a field, no
\* later call for that field returns the empty string, until reset().
C12_NeverBackToEmpty == askedField \in hadValue => returned # NoText
C12_Witness ==
  /\ askedField \in hadValue /\ ~unread
  /\ Reading(buffer, askedField) = StrVal(NoText)
  /\ returned # NoText

\* C13: the sticky value is kept per field name: extractField of one field
\* never returns a value that was extracted for a different field.
C13_StickyPerField == returned # NoText => owner = askedField

\* C14: extractField never throws; where the repair or the parse fails, or
\* the parsed value is no object, lacks the field or holds a non-string for
\* it, the call returns what the call before returned, initially the empty
\* string, and leaves the sticky value as it was.
C14_FailureKeepsLast ==
  /\ ~thrown
  /\ askedField # NoText /\ ~unread /\ Unavailable(buffer, askedField)
       => returned = prevReturned /\ lastExtractedValue = prevSticky
C14_Witness ==
  /\ askedField # NoText /\ ~unread
  /\ CompleteJSON(buffer).threw
  /\ returned # NoText /\ returned = prevReturned

\* C15: after reset() the parser is in the state of a newly constructed one:
\* fed the same chunks and asked the same fields it holds and returns the
\* same, never the sticky value of the document before.
C15_ResetIsFresh ==
  wasReset => buffer = twin.buffer /\ lastExtractedValue = twin.lastExtractedValue
C15_Witness == wasReset /\ ~unread /\ returned # NoText /\ returned = twin.lastExtractedValue


\* ---- parseAgentResponse -------------------------------------------------
\* JSON.stringify, which the tests build their inputs with.
RECURSIVE Stringify(_)
RECURSIVE Joined(_, _)
Joined(parts, k) ==
  IF k > Len(parts) THEN << >>
  ELSE (IF k > 1 THEN << CM >> ELSE << >>) \o parts[k] \o Joined(parts, k + 1)
Stringify(val) ==
  IF val.t = "str" THEN Quoted(val.v)
  ELSE IF val.t = "obj"
    THEN << LB >>
         \o Joined([k \in 1..Len(val.v) |->
                      Quoted(val.v[k][1]) \o << CL >> \o Stringify(val.v[k][2])], 1)
         \o << RB >>
  ELSE IF val.t = "arr"
    THEN << LK >> \o Joined([k \in 1..Len(val.v) |-> Stringify(val.v[k])], 1) \o << RK >>
  ELSE val.v

\* String.trim
RECURSIVE TrimEnd(_)
TrimEnd(s) ==
  IF s # << >> /\ s[Len(s)] = SP THEN TrimEnd(SubSeq(s, 1, Len(s) - 1)) ELSE s
Trim(s) == TrimEnd(SubSeq(s, Ws(s, 1), Len(s)))

\* The position of the first sym at or after i, 0 when there is none.
RECURSIVE IndexOf(_, _, _)
IndexOf(s, sym, i) ==
  IF i > Len(s) THEN 0 ELSE IF s[i] = sym THEN i ELSE IndexOf(s, sym, i + 1)

\* The position of the brace that closes the one opened before i, 0 when
\* the braces do not balance.
RECURSIVE BraceEnd(_, _, _)
BraceEnd(s, i, depth) ==
  IF i > Len(s) THEN 0
  ELSE IF s[i] = LB THEN BraceEnd(s, i + 1, depth + 1)
  ELSE IF s[i] = RB THEN (IF depth = 1 THEN i ELSE BraceEnd(s, i + 1, depth - 1))
  ELSE BraceEnd(s, i + 1, depth)

\* The three attempts, each the object it parsed or Undefined.
AsObject(text) ==
  LET parsed == JSONParse(text) IN
  IF parsed.ok /\ parsed.val.t = "obj" THEN parsed.val ELSE Undefined
DirectParse(text) == AsObject(Trim(text))
FencedParse(text) ==
  LET open == IndexOf(text, FENCE, 1)
      close == IF open = 0 THEN 0 ELSE IndexOf(text, FENCE, open + 1)
      tagged == open # 0 /\ open < Len(text) /\ text[open + 1] = "json"
      from == IF tagged THEN open + 2 ELSE open + 1
  IN IF close = 0 THEN Undefined ELSE AsObject(Trim(SubSeq(text, from, close - 1)))
EmbeddedParse_None(text) == Undefined
EmbeddedParse(text) ==
  LET open == IndexOf(text, LB, 1)
      close == IF open = 0 THEN 0 ELSE BraceEnd(text, open + 1, 1)
  IN IF close = 0 THEN Undefined ELSE AsObject(SubSeq(text, open, close))

\* Validation of one candidate entry by its tool tag.
Key(word) == << word >>
Word(word) == StrVal(<< word >>)
AllowedActions == {<< "click" >>, << "type" >>, << "set" >>}
NonEmptyString(val) == val.t = "str" /\ val.v # NoText
ScrollValid_Always(entry) == TRUE
ScrollValid(entry) == NonEmptyString(Get(entry, Key("selector")))
ValidEntry(entry) ==
  /\ entry.t = "obj"
  /\ LET tool == Get(entry, Key("tool")) IN
     /\ tool.t = "str"
     /\ \/ tool = Word("navigate") /\ NonEmptyString(Get(entry, Key("url")))
        \/ /\ tool = Word("interact")
           /\ Get(entry, Key("action")).t = "str"
           /\ Get(entry, Key("action")).v \in AllowedActions
           /\ NonEmptyString(Get(entry, Key("selector")))
        \/ tool = Word("scroll") /\ ScrollValid(entry)
        \/ tool = Word("getPageContext")

\* The entry handed to the executor: the fields of its kind, read one by one.
OfKind(val, kind) == IF val.t = kind THEN val ELSE Undefined
Field(entry, word) == Member(Key(word), Get(entry, Key(word)))
BuildEntry_AsReceived(entry) == entry
BuildEntry(entry) ==
  LET tool == Get(entry, Key("tool")) IN
  IF tool = Word("navigate") THEN ObjVal(<< Field(entry, "tool"), Field(entry, "url") >>)
  ELSE IF tool = Word("interact")
    THEN ObjVal(<< Field(entry, "tool"), Field(entry, "action"), Field(entry, "selector"),
                   Member(Key("text"), OfKind(Get(entry, Key("text")), "str")),
                   Member(Key("x"), OfKind(Get(entry, Key("x")), "num")),
                   Member(Key("y"), OfKind(Get(entry, Key("y")), "num")) >>)
  ELSE IF tool = Word("scroll") THEN ObjVal(<< Field(entry, "tool"), Field(entry, "selector") >>)
  ELSE ObjVal(<< Field(entry, "tool") >>)

\* Validate and drop: the valid entries, in their order.
KeepValid_AllOrNothing(entries) ==
  IF \A k \in 1..Len(entries) : ValidEntry(entries[k]) THEN entries ELSE << >>
KeepValid(entries) == SelectSeq(entries, ValidEntry)
ToolCallsOf(candidates) ==
  IF candidates.t # "arr" THEN << >>
  ELSE LET valid == KeepValid(candidates.v) IN [k \in 1..Len(valid) |-> BuildEntry(valid[k])]

CallsKey_CamelCaseFirst(object) ==
  IF HasKey(object, Key("toolCalls")) THEN Key("toolCalls") ELSE Key("tool_calls")

\* The key the candidate entries are read from: tool_calls when the object
\* has it, toolCalls otherwise.
CallsKey(object) ==
  IF HasKey(object, Key("tool_calls")) THEN Key("tool_calls") ELSE Key("toolCalls")

\* The response read from a parsed object.
Resolve(object) ==
  [reply |-> IF Get(object, Key("reply")).t = "str" THEN Get(object, Key("reply")).v ELSE NoText,
   toolCalls |-> ToolCallsOf(Get(object, CallsKey(object)))]

\* The fallback: the whole raw text is the reply.
FallbackReply_Trimmed(text) == Trim(text)
FallbackReply(text) == text
Candidate(text) ==
  IF DirectParse(text).t = "obj" THEN DirectParse(text)
  ELSE IF FencedParse(text).t = "obj" THEN FencedParse(text)
  ELSE EmbeddedParse(text)
parseAgentResponse(text) ==
  IF Candidate(text).t = "obj" THEN Resolve(Candidate(text))
  ELSE [reply |-> FallbackReply(text), toolCalls |-> << >>]


\* The candidate entries the backend can send: the entries of the tests, and
\* entries with an empty field, an unknown tag, no tag, fields of another
\* kind, the optional fields, and an entry that is no object.
Tool(word) == Member(Key("tool"), Word(word))
With(word, value) == Member(Key(word), Word(value))
Entries ==
  { ObjVal(<< Tool("navigate"), With("url", "/next") >>),
    ObjVal(<< Tool("navigate") >>),
    ObjVal(<< Tool("navigate"), Member(Key("url"), StrVal(NoText)) >>),
    ObjVal(<< Tool("navigate"), With("url", "/next"), With("selector", "#x") >>),
    ObjVal(<< Tool("interact"), With("action", "click"), With("selector", "#ok") >>),
    ObjVal(<< Tool("interact"), With("action", "invalid"), With("selector", "#x") >>),
    ObjVal(<< Tool("interact"), With("action", "click"), Member(Key("selector"), StrVal(NoText)) >>),
    ObjVal(<< Tool("interact"), With("action", "type"), With("selector", "#ok"),
              With("text", "hi"), Member(Key("x"), NumVal(<< "7" >>)), With("url", "/next") >>),
    ObjVal(<< Tool("scroll"), With("selector", "#pricing") >>),
    ObjVal(<< Tool("scroll") >>),
    ObjVal(<< Tool("getPageContext") >>),
    ObjVal(<< Tool("getPageContext"), With("url", "/next") >>),
    ObjVal(<< Tool("fly"), With("url", "/next") >>),
    ObjVal(<< With("url", "/next") >>),
    NumVal(<< "7" >>) }
ToolLists == UNION {[1..n -> Entries] : n \in 0..MaxEntries}
CallKeys == {Key("tool_calls"), Key("toolCalls")}
Documents ==
  {ObjVal(<< With("reply", "Merhaba"), Member(key, ArrVal(list)) >>) :
     key \in CallKeys, list \in ToolLists}
  \cup { ObjVal(<< With("reply", "Merhaba") >>),
         ObjVal(<< Member(Key("reply"), NumVal(<< "7" >>)),
                   Member(Key("tool_calls"), Word("navigate")) >>),
         ObjVal(<< Member(Key("toolCalls"), ArrVal(<< ObjVal(<< Tool("getPageContext") >>) >>)),
                   Member(Key("tool_calls"), ArrVal(<< >>)) >>),
         ObjVal(<< With("reply", "Merhaba"),
                   Member(Key("tool_calls"),
                          ArrVal(<< ObjVal(<< Tool("navigate"), With("url", "/next") >>) >>)),
                   Member(Key("toolCalls"),
                          ArrVal(<< ObjVal(<< Tool("scroll"), With("selector", "#pricing") >>) >>)) >>),
         ObjVal(<< With("reply", "Merhaba"),
                   Member(Key("toolCalls"),
                          ArrVal(<< ObjVal(<< Tool("scroll"), With("selector", "#pricing") >>),
                                    ObjVal(<< Tool("getPageContext") >>) >>)),
                   Member(Key("tool_calls"),
                          ArrVal(<< ObjVal(<< Tool("navigate"), With("url", "/next") >>) >>)) >>) }

\* The ways a document reaches the parser: alone, fenced with and without
\* the json tag, fenced after a line of prose, and inside prose, with and
\* without braces of its own.
Prose == << "prose", SP, "text" >>
Braced == << "see", SP, LB, "this", RB >>
Wrappings(doc) ==
  { doc,
    << FENCE, "json", SP >> \o doc \o << SP, FENCE >>,
    << FENCE >> \o doc \o << FENCE >>,
    Prose \o << SP, FENCE, "json", SP >> \o doc \o << SP, FENCE >>,
    Prose \o << SP >> \o doc \o << SP >> \o Prose,
    Braced \o << SP >> \o doc \o << SP >> \o Prose }
\* Texts that hold no JSON object.
PlainTexts ==
  { Prose,
    << SP >> \o Prose \o << SP >>,
    << "7" >>,
    Quoted(Prose),
    << LB >> \o Prose,
    Braced,
    << FENCE, "json", SP >> \o Prose \o << SP, FENCE >>,
    << LB >> \o Quoted(Key("reply")) \o << CL >> }
Inputs ==
  UNION {{[text |-> text, written |-> doc] : text \in Wrappings(Stringify(doc))} : doc \in Documents}
  \cup {[text |-> text, written |-> Undefined] : text \in PlainTexts}

\* The accumulated text of a finished response arrives.
Receive(input) ==
  /\ stage = "idle"
  /\ stage' = "received"
  /\ raw' = input.text
  /\ document' = input.written
  /\ UNCHANGED << response, reparsed, offAgentVars >>

\* parseAgentResponse(raw)
ParseAgentResponse ==
  /\ stage = "received"
  /\ stage' = "parsed"
  /\ response' = parseAgentResponse(raw)
  /\ UNCHANGED << raw, reparsed, document, offAgentVars >>

\* parseAgentResponse(response.reply)
ParseReply ==
  /\ stage = "parsed"
  /\ stage' = "reparsed"
  /\ reparsed' = parseAgentResponse(response.reply)
  /\ UNCHANGED << raw, response, document, offAgentVars >>

AgentNext ==
  \/ \E input \in Inputs : Receive(input)
  \/ ParseAgentResponse
  \/ ParseReply

AgentSpec == TextInit /\ [][AgentNext]_vars


\* ---- properties of parseAgentResponse -----------------------------------
\* The candidate entries of the document, and its reply.
Sent ==
  IF HasKey(document, Key("tool_calls"))
    THEN Get(document, Key("tool_calls"))
    ELSE Get(document, Key("toolCalls"))
Alone == stage # "idle" /\ stage # "received" /\ raw = Stringify(document)
AloneWithList == Alone /\ Sent.t = "arr"
TagOf(entry) == IF entry.t = "obj" THEN Get(entry, Key("tool")) ELSE Undefined
Tagged(entry, word) == TagOf(entry) = Word(word)
HasText(entry, word) ==
  Get(entry, Key(word)).t = "str" /\ Get(entry, Key(word)).v # NoText
\* The entries the claim lists as dropped.
Listed(entry) ==
  \/ ~\E word \in {"navigate", "interact", "scroll", "getPageContext"} : Tagged(entry, word)
  \/ Tagged(entry, "navigate") /\ ~HasText(entry, "url")
  \/ Tagged(entry, "interact")
       /\ ~(HasText(entry, "selector") /\ \E word \in {"click", "type", "set"} :
              Get(entry, Key("action")) = Word(word))
NotListed(entry) == ~Listed(entry)
BareScroll(entry) == Tagged(entry, "scroll") /\ ~HasText(entry, "selector")
Runnable(entry) == ~Listed(entry) /\ ~BareScroll(entry)
\* out is the entry in: every field it carries is a field of in.
CameFrom(out, in) ==
  \A k \in 1..Len(out.v) : out.v[k][2].t # "undefined" => Get(in, out.v[k][1]) = out.v[k][2]
Returns(kept) ==
  /\ Len(response.toolCalls) = Len(kept)
  /\ \A k \in 1..Len(kept) : CameFrom(response.toolCalls[k], kept[k])
  /\ response.reply = Get(document, Key("reply")).v

\* C16: for every tool-call array that mixes valid and invalid entries the
\* parser returns exactly the valid entries in their order, with the reply:
\* dropped are the entries with an unknown tag, the interact entries with an
\* action outside the allow-list or an empty selector, and the navigate
\* entries without a non-empty url.
C16_KeepsValidEntries == AloneWithList => Returns(SelectSeq(Sent.v, NotListed))

\* C16, amended: dropped as well are the scroll entries without a selector.
C16_KeepsRunnableEntries == AloneWithList => Returns(SelectSeq(Sent.v, Runnable))
C16_Witness ==
  /\ AloneWithList /\ Len(Sent.v) = MaxEntries
  /\ Listed(Sent.v[1]) /\ Runnable(Sent.v[MaxEntries])
  /\ Len(response.toolCalls) = MaxEntries - 1 /\ response.reply # NoText

ScrollsIn(entries) == Cardinality({k \in 1..Len(entries) : Tagged(entries[k], "scroll")})
\* C17: an entry whose tool tag is scroll is always kept, with or without a
\* selector.
C17_ScrollAlwaysKept ==
  AloneWithList => ScrollsIn(response.toolCalls) = ScrollsIn(Sent.v)

\* C17, amended: an entry whose tool tag is scroll is kept when it carries a
\* selector and dropped when it carries none.
C17_ScrollKeptWithSelector ==
  AloneWithList => ScrollsIn(response.toolCalls) = ScrollsIn(SelectSeq(Sent.v, Runnable))
C17_Witness ==
  /\ AloneWithList /\ ScrollsIn(Sent.v) = MaxEntries
  /\ \E k \in 1..Len(Sent.v) : BareScroll(Sent.v[k])
  /\ ScrollsIn(response.toolCalls) = MaxEntries - 1

Wrapped == stage = "parsed" /\ document # Undefined /\ raw # Stringify(document)
FieldsOf(tool) ==
  IF tool = Word("navigate") THEN {Key("tool"), Key("url")}
  ELSE IF tool = Word("interact")
    THEN {Key("tool"), Key("action"), Key("selector"), Key("text"), Key("x"), Key("y")}
  ELSE IF tool = Word("scroll") THEN {Key("tool"), Key("selector")}
  ELSE IF tool = Word("getPageContext") THEN {Key("tool")}
  ELSE {}
Required(tool) ==
  IF tool = Word("scroll") THEN {Key("tool")}
  ELSE FieldsOf(tool) \ {Key("text"), Key("x"), Key("y")}
KeysOf(entry) == {entry.v[k][1] : k \in 1..Len(entry.v)}
\* C20: every entry of the output carries the fields of its kind and no
\* others: navigate tool and url; interact tool, action, selector and the
\* optional text, x, y; scroll tool and the optional selector;
\* getPageContext tool alone.
C20_OnlyFieldsOfItsKind ==
  \A k \in 1..Len(response.toolCalls) :
    LET entry == response.toolCalls[k] IN
    /\ KeysOf(entry) \subseteq FieldsOf(TagOf(entry))
    /\ \A key \in Required(TagOf(entry)) : Get(entry, key).t = "str"
C20_Witness ==
  /\ AloneWithList /\ Len(Sent.v) = MaxEntries /\ Len(response.toolCalls) = MaxEntries
  /\ \E k \in 1..MaxEntries : ~(KeysOf(Sent.v[k]) \subseteq FieldsOf(TagOf(Sent.v[k])))

\* The entries a response was built from are those of the array under key,
\* less the ones that cannot run.
BuiltFrom(key) ==
  LET list == Get(document, Key(key))
      kept == IF list.t = "arr" THEN SelectSeq(list.v, Runnable) ELSE << >>
  IN /\ Len(response.toolCalls) = Len(kept)
     /\ \A k \in 1..Len(kept) : CameFrom(response.toolCalls[k], kept[k])

\* C30: the tool calls are taken from tool_calls when the response has that
\* key and from toolCalls otherwise; when it has both, only the entries of
\* tool_calls are used.
C30_SnakeCaseBeforeCamelCase ==
  Alone => IF HasKey(document, Key("tool_calls")) THEN BuiltFrom("tool_calls")
                                                  ELSE BuiltFrom("toolCalls")

\* A response with both keys, each holding runnable entries, was parsed.
C30_Witness ==
  /\ Alone
  /\ HasKey(document, Key("tool_calls")) /\ HasKey(document, Key("toolCalls"))
  /\ Len(response.toolCalls) = 1
  /\ Len(Get(document, Key("toolCalls")).v) = 2

\* ---- executeToolCalls ---------------------------------------------------
\* The validated calls a response can carry, up to MaxEntries of them; the
\* widget calls executeToolCalls only with a non-empty array.
ToolCalls == {"navigate", "interact", "scroll", "getPageContext"}
CallLists == UNION {[1..n -> ToolCalls] : n \in 1..MaxEntries}

Settled(i) == progress[i] \in {"done", "failed"}

MayBegin_Together(i) == progress[i] = "waiting"

\* The loop takes up entry i: the first one not yet taken up, once the
\* action of every entry before it has completed or failed.
MayBegin(i) ==
  /\ progress[i] = "waiting"
  /\ \A j \in 1..(i - 1) : Settled(j)

Rejects_OnFailure(ok) == ~ok

\* An action's failure is caught and logged inside the loop.
Rejects(ok) == FALSE

\* void executeToolCalls(resolved.toolCalls).catch(...)
ExecuteToolCalls(list) ==
  /\ promise \in {"none", "fulfilled", "rejected"}
  /\ calls' = list
  /\ progress' = [i \in 1..Len(list) |-> "waiting"]
  /\ promise' = "pending"
  /\ UNCHANGED offToolVars

\* The action of entry i starts.
BeginCall(i) ==
  /\ promise = "pending"
  /\ i \in 1..Len(calls)
  /\ MayBegin(i)
  /\ progress' = [progress EXCEPT ![i] = "running"]
  /\ UNCHANGED << offToolVars, calls, promise >>

\* The action of entry i completes (ok) or fails (element not found,
\* navigation blocked); after the last entry the promise is fulfilled.
EndCall(i, ok) ==
  /\ promise = "pending"
  /\ i \in 1..Len(calls)
  /\ progress[i] = "running"
  /\ progress' = [progress EXCEPT ![i] = IF ok THEN "done" ELSE "failed"]
  /\ promise' = IF Rejects(ok) THEN "rejected"
                ELSE IF \A j \in 1..Len(calls) : j # i => Settled(j)
                       THEN "fulfilled" ELSE "pending"
  /\ UNCHANGED << offToolVars, calls >>

ToolNext ==
  \/ \E list \in CallLists : ExecuteToolCalls(list)
  \/ \E i \in 1..MaxEntries : BeginCall(i)
  \/ \E i \in 1..MaxEntries, ok \in BOOLEAN : EndCall(i, ok)

ToolSpec == TextInit /\ [][ToolNext]_vars

\* C25: executeToolCalls runs the calls one at a time in array order: the
\* action of entry i+1 is not started before the action of entry i has
\* completed or failed.
C25_OneAtATimeInOrder ==
  \A i \in 1..Len(calls) : \A j \in 1..(i - 1) :
    progress[i] # "waiting" => Settled(j)

\* The second entry runs after the first one has completed.
C25_Witness ==
  /\ Len(calls) = 2
  /\ progress[1] = "done"
  /\ progress[2] = "running"

\* C26: a failing tool call is caught and does not abort the rest: once an
\* entry has failed the promise is not rejected, the entries after it are
\* still taken up, and the promise is fulfilled only when every entry has
\* been attempted.
C26_FailureDoesNotAbort ==
  /\ promise # "rejected"
  /\ promise = "fulfilled" => \A i \in 1..Len(calls) : Settled(i)
  /\ (promise = "pending" /\ \A i \in 1..Len(calls) : progress[i] # "running")
       => \E i \in 1..Len(calls) : ENABLED BeginCall(i)

\* The first entry failed, the second was attempted, the promise fulfilled.
C26_Witness ==
  /\ Len(calls) = 2
  /\ progress[1] = "failed"
  /\ progress[2] = "done"
  /\ promise = "fulfilled"

\* ---- the hands-free loop ------------------------------------------------
\* const accessibilityMode = isAccessibilityEnabled && !isOpen
accessibilityMode == isAccessibilityEnabled /\ ~isOpen

\* toggleAccessibilityMode, the switch on the microphone button of
\* ChatButton.
ToggleAccessibilityMode ==
  /\ mounted /\ ~isOpen
  /\ isAccessibilityEnabled' = ~isAccessibilityEnabled
  /\ UNCHANGED << widgetVars, utilVars, sessionVars, effectDeps >>

\* The auto-listen effect.  An effect runs after the render that changed
\* one of its dependencies has been painted, in a task of its own: first
\* the cleanup of its last run (clearTimeout), then its body, which reads
\* the state of that render and the ref autoListenSuppressedRef.
AutoListenEffect ==
  /\ mounted
  /\ effectDeps # << accessibilityMode, isRecordingRef, isProcessingRef >>
  /\ effectDeps' = << accessibilityMode, isRecordingRef, isProcessingRef >>
  /\ autoTimer' = IF accessibilityMode /\ ~(isRecordingRef \/ isProcessingRef
                                            \/ autoListenSuppressedRef)
                    THEN "armed" ELSE "none"
  /\ UNCHANGED << uiVars, histVars, stateVars, previewMessage, tracksLive,
                  events, assistantMsgIdRef, utilVars, sessionVars,
                  isAccessibilityEnabled >>

\* What the timeout's callback tests before it calls startButtonRecording.
\* Its accessibilityMode is the constant of the render whose effect set the
\* timeout, which is true whenever a timeout was set; the refs are read
\* when it fires.
TimerStarts ==
  ~isRecordingRef /\ ~isProcessingRef /\ ~autoListenSuppressedRef

\* The timeout of the auto-listen effect fires, 250 ms after the effect ran.
AutoListenTimer ==
  /\ autoTimer = "armed"
  /\ autoTimer' = "none"
  /\ TimerStarts => \E c \in Calls : pc[c] = "unused"
  /\ IF TimerStarts
       THEN \E c \in Calls : startButtonRecording(c)
       ELSE UNCHANGED << uiVars, histVars, stateVars, previewMessage,
                         tracksLive, events, assistantMsgIdRef >>
  /\ UNCHANGED textVars

\* The microphone of a running recording is unplugged or taken away: the
\* tracks of its stream end.
DeviceLost(c) ==
  /\ recState[c] = "recording"
  /\ tracksLive[c]
  /\ tracksLive' = [tracksLive EXCEPT ![c] = FALSE]
  /\ UNCHANGED << uiVars, histVars, stateVars, previewMessage, events,
                  assistantMsgIdRef, autoTimer, textVars >>

\* The widget with the hands-free loop.  A recording ends when it is
\* cancelled or its tracks end; the sampling interval is left out.
ListenNext ==
  \/ \E c \in Calls : StartButtonRecording(c)
  \/ \E c \in Calls, threw \in BOOLEAN : MicAcquired(c, threw)
  \/ \E c \in Calls, permission \in BOOLEAN : MicRejected(c, permission)
  \/ \E c \in Calls : DataAvailable(c)
  \/ \E c \in Calls : DeviceLost(c)
  \/ \E c \in Calls : TracksEnded(c)
  \/ \E c \in Calls, lastChunk \in BOOLEAN : RecorderStopEvent(c, lastChunk)
  \/ CancelClick
  \/ ToggleWidget
  \/ HandleClose
  \/ Unmount
  \/ \E c \in Calls, kind \in EventKinds : StreamEvent(c, kind)
  \/ \E c \in Calls, rejected \in BOOLEAN : DoneSettles(c, rejected)
  \/ ToggleAccessibilityMode
  \/ AutoListenEffect
  \/ AutoListenTimer

ListenSpec == TextInit /\ [][ListenNext]_vars

\* A step in which the timeout fires, and one in which call d is made.
TimerFiring ==
  autoTimer = "armed" /\ autoTimer' = "none" /\ mounted' /\ effectDeps' = effectDeps
Begins(d) == pc[d] = "unused" /\ pc'[d] = "awaitMic"
\* A step in which the start of call c fails.
StartFails(c) == pc[c] = "awaitMic" /\ pc'[c] = "failed"

\* C23: after a microphone start failure of either kind the recording is
\* aborted (the widget is Idle and the capture resources are released), and
\* auto-listen does not start another recording until the next explicit
\* user start: the timeout never makes the call that follows a failed one.
C23_FailureStopsAutoListen ==
  [][ /\ \A c \in Calls : StartFails(c) =>
           /\ ~isRecordingRef' /\ ~isProcessingRef'
           /\ streamRef' = Null /\ audioContextRef' = Null /\ vadIntervalRef' = Null
           /\ ~tracksLive'[c]
      /\ \A d \in Calls \ {1} :
           (TimerFiring /\ Begins(d)) => pc[d - 1] # "failed"
    ]_vars

\* C29: the auto-listen timeout starts a recording only when, as it fires,
\* accessibility mode is on with the window closed and the widget is
\* neither recording nor processing nor suppressed; in every other state
\* its firing starts nothing; and it never fires while the window is open.
C29_TimerStartsOnlyWhenIdle ==
  [][ TimerFiring =>
        /\ ~isOpen
        /\ (\E d \in Calls : Begins(d)) <=>
             /\ accessibilityMode
             /\ ~isRecordingRef /\ ~isProcessingRef
             /\ ~autoListenSuppressedRef
    ]_vars

\* ---- the callbacks of a voice session ------------------------------------
\* The events of one response.  The client module parses the response
\* stream of startVoiceSession and calls the handlers of
\* sendAudioAndPreview; an event is a kind and the text it carries.
Event(kind, text) == [kind |-> kind, text |-> text]
ReplyOpens == << LB >> \o Quoted(Reply) \o << CL, QT, "Merhaba" >>
ReplyCloses == << "dunya", QT, RB, SP, "tesekkurler" >>
Silent ==
  Stringify(ObjVal(<< Member(Reply, StrVal(NoText)),
                      Member(Key("tool_calls"),
                             ArrVal(<< ObjVal(<< Member(Key("tool"), Word("navigate")),
                                                 Member(Key("url"), Word("/next")) >>) >>)) >>))
Scripts ==
  { << Event("transcription", << "soru" >>), Event("delta", ReplyOpens),
       Event("delta", ReplyCloses), Event("done", ReplyOpens \o ReplyCloses) >>,
    << Event("transcription", << SP >>), Event("delta", Prose),
       Event("audio", NoText), Event("done", Prose) >>,
    << Event("transcription", << "soru" >>), Event("delta", ReplyOpens),
       Event("error", NoText) >>,
    << Event("delta", Silent), Event("done", Silent) >> }

\* One more event of the response of session c has reached the client.
Arrive(c, s) ==
  /\ mounted
  /\ Delivers(c)
  /\ IF script[c] = NoScript THEN script' = [script EXCEPT ![c] = s]
     ELSE s = script[c] /\ arrived[c] < Len(s) /\ UNCHANGED script
  /\ arrived' = [arrived EXCEPT ![c] = @ + 1]
  /\ UNCHANGED << widgetVars, utilVars, loopVars, storedMessages, storedSessionId,
                  previewText, parser, invoked, msgOf >>

\* The event the client hands to a handler next: the oldest one that has
\* arrived and was not handed over yet.
Dispatchable_AnyArrived(c, k) ==
  k <= arrived[c] /\ \A i \in 1..Len(invoked[c]) : invoked[c][i] # k
Dispatchable(c, k) == k = Len(invoked[c]) + 1 /\ k <= arrived[c]

\* appendToStoredMessages and updateStoredMessage: a stored message is its
\* text and its side, and its id is its place in the list.  The greeting
\* that createInitialMessages puts before the first message is left out.
appendToStoredMessages(text, isUser) ==
  Append(storedMessages, [text |-> text, isUser |-> isUser])
updateStoredMessage(id, text) ==
  [m \in 1..Len(storedMessages) |->
     IF m = id THEN [storedMessages[m] EXCEPT !.text = text] ELSE storedMessages[m]]
NewId == Len(storedMessages) + 1
Owned(c, id) == [msgOf EXCEPT ![c] = IF @ = Null THEN id ELSE @]

\* onTranscription
OnTranscription(c, userText) ==
  /\ storedSessionId' = << "session", c >>
  /\ storedMessages' = IF Trim(userText) # NoText
                         THEN appendToStoredMessages(userText, TRUE)
                         ELSE storedMessages
  /\ UNCHANGED << previewMessage, previewText, assistantMsgIdRef, parser, msgOf, calls,
                  progress, promise >>

\* onAssistantDelta, from `if (text)' on: text is what extractReplyText
\* returned for the buffer appended.
ShowDelta(c, appended, text) ==
  /\ parser' = [parser EXCEPT ![c] = [buffer |-> appended, lastExtractedValue |-> text]]
  /\ IF text # NoText
       THEN /\ previewMessage' = "text"
            /\ previewText' = text
            /\ IF assistantMsgIdRef = Null
                 THEN /\ storedMessages' = appendToStoredMessages(text, FALSE)
                      /\ assistantMsgIdRef' = NewId
                      /\ msgOf' = Owned(c, NewId)
                 ELSE /\ storedMessages' = updateStoredMessage(assistantMsgIdRef, text)
                      /\ UNCHANGED << assistantMsgIdRef, msgOf >>
       ELSE UNCHANGED << previewMessage, previewText, storedMessages,
                         assistantMsgIdRef, msgOf >>
  /\ UNCHANGED << storedSessionId, calls, progress, promise >>

\* onAssistantDelta: appendChunk, then extractReplyText.
OnAssistantDelta(c, delta) ==
  ShowDelta(c, parser[c].buffer \o delta,
            TryBlock(parser[c].buffer \o delta, Reply, parser[c].lastExtractedValue).sticky)

\* resolveAssistantPayload of ChatWindow: the text to display and the tool
\* calls of the final text.
Payload(parsed) == [displayText |-> parsed.reply, toolCalls |-> parsed.toolCalls]
resolveAssistantPayload(assistantText) == Payload(parseAgentResponse(assistantText))

\* const finalText = resolved.displayText || assistantText
FinalText(resolved, assistantText) ==
  IF resolved.displayText # NoText THEN resolved.displayText ELSE assistantText

\* if (resolved.toolCalls.length > 0)
StartsTools_Always(resolved) == TRUE
StartsTools(resolved) == Len(resolved.toolCalls) > 0

\* onAssistantDone, once resolved and finalText are computed.
ShowFinal(c, resolved, finalText) ==
  /\ IF assistantMsgIdRef # Null
       THEN /\ storedMessages' = updateStoredMessage(assistantMsgIdRef, finalText)
            /\ UNCHANGED msgOf
       ELSE /\ storedMessages' = appendToStoredMessages(finalText, FALSE)
            /\ msgOf' = Owned(c, NewId)
  /\ previewMessage' = "final"
  /\ previewText' = finalText
  /\ IF StartsTools(resolved)
       THEN /\ calls' = [i \in 1..Len(resolved.toolCalls) |->
                           Get(resolved.toolCalls[i], Key("tool")).v[1]]
            /\ progress' = [i \in 1..Len(resolved.toolCalls) |-> "waiting"]
            /\ promise' = "pending"
       ELSE UNCHANGED << calls, progress, promise >>
  /\ UNCHANGED << storedSessionId, assistantMsgIdRef, parser >>
Resolved(c, resolved, assistantText) ==
  ShowFinal(c, resolved, FinalText(resolved, assistantText))

\* onAssistantDone
OnAssistantDone(c, assistantText) ==
  Resolved(c, resolveAssistantPayload(assistantText), assistantText)

\* onError
OnError ==
  /\ previewMessage' = "null"
  /\ UNCHANGED << previewText, storedMessages, storedSessionId, assistantMsgIdRef, parser,
                  msgOf, calls, progress, promise >>

\* onAudioStateChange logs the state.
OnAudioStateChange ==
  UNCHANGED << previewMessage, previewText, storedMessages, storedSessionId,
               assistantMsgIdRef, parser, msgOf, calls, progress, promise >>

\* The client hands event k of session c to its handler.
Invoke(c, k) ==
  /\ mounted
  /\ Delivers(c)
  /\ Dispatchable(c, k)
  /\ invoked' = [invoked EXCEPT ![c] = Append(@, k)]
  /\ events' = [events EXCEPT ![c] = @ + 1]
  /\ LET event == script[c][k] IN
     CASE event.kind = "transcription" -> OnTranscription(c, event.text)
       [] event.kind = "delta" -> OnAssistantDelta(c, event.text)
       [] event.kind = "done" -> OnAssistantDone(c, event.text)
       [] event.kind = "error" -> OnError
       [] OTHER -> OnAudioStateChange
  /\ UNCHANGED << uiVars, histVars, stateVars, tracksLive, autoTimer, extractorVars,
                  agentVars, apiVars, reactVars, loopVars, script, arrived >>

SessionNext ==
  \/ \E c \in Calls : StartButtonRecording(c)
  \/ \E c \in Calls, threw \in BOOLEAN : MicAcquired(c, threw)
  \/ \E c \in Calls : DeviceLost(c)
  \/ \E c \in Calls : TracksEnded(c)
  \/ \E c \in Calls, lastChunk \in BOOLEAN : RecorderStopEvent(c, lastChunk)
  \/ \E c \in Calls, s \in Scripts : Arrive(c, s)
  \/ \E c \in Calls, k \in 1..MaxScript : Invoke(c, k)
  \/ \E c \in Calls, rejected \in BOOLEAN : DoneSettles(c, rejected)

SessionSpec == TextInit /\ [][SessionNext]_vars

\* ---- properties of the session callbacks --------------------------------
KindAt(c, i) == script[c][invoked[c][i]].kind

Handles(c, kind) ==
  /\ Len(invoked'[c]) = Len(invoked[c]) + 1
  /\ script[c][Len(invoked'[c])].kind = kind
Carried(c) == script[c][Len(invoked[c]) + 1].text

\* C22: when assistant_done arrives for a session, the preview text and the
\* session's stored assistant message are set to the final text resolved
\* from the full response, whatever the extractor produced from the deltas.
C22_DoneSetsFinalText ==
  [][ \A c \in Calls :
        Handles(c, "done") =>
          /\ previewMessage' = "final"
          /\ previewText' = FinalText(resolveAssistantPayload(Carried(c)), Carried(c))
          /\ msgOf'[c] # Null
          /\ storedMessages'[msgOf'[c]].text =
               FinalText(resolveAssistantPayload(Carried(c)), Carried(c))
    ]_vars

\* C24: when a transport error occurs mid-stream the error callback clears
\* the preview; once controller.done has settled the processing flag is
\* false and the active-controller reference is null; and a session that
\* has ended is not started again for its audio.
Errored(c) == \E i \in 1..Len(invoked[c]) : KindAt(c, i) = "error"
C24_TransportErrorTearsDown ==
  [][ \A c \in Calls :
        /\ Handles(c, "error") => previewMessage' = "null"
        /\ Errored(c) /\ sess[c] # "settled" /\ sess'[c] = "settled"
             => ~isProcessingRef' /\ activeControllerRef' = Null
        /\ Errored(c) => /\ invoked'[c] = invoked[c]
                         /\ sess[c] # "active" => sess'[c] # "active"
                         /\ blobSize'[c] = blobSize[c]
    ]_vars

\* A session whose response broke off after a delta had been shown, torn
\* down.
C24_Witness ==
  \E c \in Calls :
    /\ Errored(c)
    /\ parser[c].lastExtractedValue # NoText
    /\ sess[c] = "settled"
    /\ previewMessage = "null"
    /\ ~isProcessingRef /\ activeControllerRef = Null
    /\ \A d \in Calls : sess[d] # "active"

\* C31: executeToolCalls is started only by the handler of assistant_done,
\* and only when the resolved list of tool calls is not empty; no other
\* handler touches it; and the settling of controller.done clears the
\* processing flag without waiting for the tool calls or touching them.
C31_ToolsOnlyOnDone ==
  [][ /\ << calls, progress, promise >>' # << calls, progress, promise >>
           => \E c \in Calls : /\ Handles(c, "done")
                               /\ Len(resolveAssistantPayload(Carried(c)).toolCalls) > 0
      /\ \A c \in Calls :
           /\ Handles(c, "done")
                => IF Len(resolveAssistantPayload(Carried(c)).toolCalls) > 0
                     THEN /\ promise' = "pending"
                          /\ Len(calls') = Len(resolveAssistantPayload(Carried(c)).toolCalls)
                          /\ \A i \in 1..Len(calls') : progress'[i] = "waiting"
                     ELSE UNCHANGED << calls, progress, promise >>
           /\ sess[c] # "settled" /\ sess'[c] = "settled"
                => ~isProcessingRef' /\ UNCHANGED << calls, progress, promise >>
    ]_vars

\* A session that is over and whose widget is idle again while the tool
\* calls its response asked for have not begun.
C31_Witness ==
  \E c \in Calls :
    /\ sess[c] = "settled"
    /\ Len(invoked[c]) > 0 /\ KindAt(c, Len(invoked[c])) = "done"
    /\ ~isProcessingRef
    /\ promise = "pending"
    /\ Len(calls) > 0 /\ \A i \in 1..Len(calls) : progress[i] = "waiting"

\* C32: the deltas and the assistant_done of one session append at most one
\* assistant message to the stored history: a handler of a session that has
\* appended its message appends no other, and writes its text into that
\* message.
Appends == Len(storedMessages') > Len(storedMessages)
C32_OneAssistantMessage ==
  [][ \A c \in Calls :
        (Handles(c, "delta") \/ Handles(c, "done")) /\ msgOf[c] # Null =>
          /\ ~Appends
          /\ previewText' # previewText => storedMessages'[msgOf[c]].text = previewText'
    ]_vars

\* ---- the embed API: init, destroy, isReady -----------------------------
\* `options.x || DEFAULT_CONFIG.x': an omitted or empty property takes the
\* default.
OrDefault(value, default) == IF value \in {Omitted, ""} THEN default ELSE value

\* /^#([0-9a-fA-F]{3}|[0-9a-fA-F]{6})$/
isValidHexColor(value) ==
  LET HexDigits ==
        {"0", "1", "2", "3", "4", "5", "6", "7", "8", "9",
         "a", "b", "c", "d", "e", "f", "A", "B", "C", "D", "E", "F"}
  IN /\ Len(value) \in {4, 7}
     /\ value[1] = "#"
     /\ \A i \in 2..Len(value) : value[i] \in HexDigits

normalizeHexColor(value) ==
  LET trimmed == Trim(value)
      toLowerCase(ch) ==
        CASE ch = "A" -> "a" [] ch = "B" -> "b" [] ch = "C" -> "c"
          [] ch = "D" -> "d" [] ch = "E" -> "e" [] ch = "F" -> "f"
          [] OTHER -> ch
      long == IF Len(trimmed) = 4
                THEN << "#", trimmed[2], trimmed[2], trimmed[3], trimmed[3],
                        trimmed[4], trimmed[4] >>
                ELSE trimmed
  IN IF ~isValidHexColor(trimmed)
       THEN DEFAULT_CONFIG.baseColor
       ELSE [i \in 1..Len(long) |-> toLowerCase(long[i])]

\* const voice = options.voice === "zeynep" ? "zeynep" : "ali";
VoiceOf(voice) == IF voice = "zeynep" THEN "zeynep" ELSE "ali"

resolveRuntimeConfig(options) ==
  [backendBaseUrl |-> OrDefault(options.backendBaseUrl, DEFAULT_CONFIG.backendBaseUrl),
   projectId |-> OrDefault(options.projectId, DEFAULT_CONFIG.projectId),
   model |-> OrDefault(options.model, DEFAULT_CONFIG.model),
   voice |-> VoiceOf(options.voice),
   baseColor |-> normalizeHexColor(IF options.baseColor = NoText
                                     THEN DEFAULT_CONFIG.baseColor
                                     ELSE options.baseColor),
   agentName |-> OrDefault(options.agentName, DEFAULT_CONFIG.agentName)]

\* The options a caller passes to init.  "host" is an element the page may
\* hold; no page holds an element "absent".
Options ==
  [containerId : {Omitted, "host", "absent"},
   backendBaseUrl : {Omitted},
   projectId : {Omitted, "proj_abc123"},
   model : {Omitted},
   voice : {Omitted, "zeynep", "ali"},
   baseColor : {NoText, << "#", "A", "B", "C" >>, << "r", "e", "d" >>},
   agentName : {Omitted}]

InitializedAfterInit_BeforeMount(found) == TRUE

\* isInitialized when init returns, having been false when it was called:
\* set after render, which the missing container's early return skips.
InitializedAfterInit(found) == found

\* init(options)
init(options) ==
  LET config == resolveRuntimeConfig(options)
      container == IF options.containerId \notin {Omitted, ""}
                     THEN IF options.containerId \in pageElements
                            THEN options.containerId ELSE NoElement
                     ELSE "bulut-container"
      found == container # NoElement
  IN
  /\ lastOptions' = options
  /\ IF isInitialized
       THEN /\ lastCall' = "already"
            /\ UNCHANGED << isInitialized, widgetContainer, widgetMountNode,
                            createdContainer, pageElements, rendered,
                            runtimeConfig, primary >>
       ELSE /\ primary' = normalizeHexColor(config.baseColor)
            /\ widgetContainer' = container
            /\ createdContainer' = (options.containerId \in {Omitted, ""})
            /\ pageElements' = IF options.containerId \in {Omitted, ""}
                                 THEN pageElements \cup {"bulut-container"}
                                 ELSE pageElements
            /\ isInitialized' = InitializedAfterInit(found)
            /\ IF found
                 THEN /\ widgetMountNode' = container
                      /\ rendered' = TRUE
                      /\ runtimeConfig' = config
                      /\ lastCall' = "mounted"
                 ELSE /\ lastCall' = "not found"
                      /\ UNCHANGED << widgetMountNode, rendered, runtimeConfig >>

\* A call of init from the host page.
ApiInitCall(options) == init(options) /\ UNCHANGED offApiVars

\* destroy()
destroy ==
  /\ IF ~isInitialized
       THEN /\ lastCall' = "not initialized"
            /\ UNCHANGED << isInitialized, widgetContainer, widgetMountNode,
                            createdContainer, pageElements, rendered >>
       ELSE /\ rendered' = IF widgetMountNode # NoElement THEN FALSE ELSE rendered
            /\ widgetMountNode' = NoElement
            /\ pageElements' = IF widgetContainer # NoElement /\ createdContainer
                                 THEN pageElements \ {widgetContainer}
                                 ELSE pageElements
            /\ widgetContainer' = NoElement
            /\ createdContainer' = FALSE
            /\ isInitialized' = FALSE
            /\ lastCall' = "destroyed"
  /\ UNCHANGED << runtimeConfig, primary, lastOptions >>

\* A call of destroy from the host page.
ApiDestroy == destroy /\ UNCHANGED offApiVars

\* export const isReady = () => isInitialized
isReady == isInitialized

\* The host page adds or removes its element "host".
PageChanges ==
  /\ pageElements' = IF "host" \in pageElements THEN pageElements \ {"host"}
                                                ELSE pageElements \cup {"host"}
  /\ UNCHANGED << offApiVars, isInitialized,
                  widgetContainer, widgetMountNode, createdContainer, rendered,
                  runtimeConfig, primary, lastOptions, lastCall >>

ApiNext ==
  \/ \E options \in Options : ApiInitCall(options)
  \/ ApiDestroy
  \/ PageChanges

ApiSpec == TextInit /\ [][ApiNext]_vars

\* C27: isReady() is true exactly while a widget is mounted: false before
\* any init, true after an init that mounted, false after destroy and after
\* an init whose containerId matched no element, through any sequence of
\* init and destroy calls.
C27_ReadyIffMounted ==
  /\ isReady <=> rendered
  /\ lastCall \in {"none", "not found", "destroyed", "not initialized"} => ~isReady
  /\ lastCall \in {"mounted", "already"} => isReady

\* An init that failed because its containerId matched no element of a
\* page that holds other elements.
C27_Witness ==
  /\ lastCall = "not found"
  /\ lastOptions.containerId = "absent"
  /\ ~isReady
  /\ "host" \in pageElements

\* C28: when the voice option is omitted the resolved runtime config uses
\* the documented default "zeynep"; when it is given as "zeynep" or "ali"
\* that value is used.
C28_VoiceDefault ==
  (rendered /\ lastCall = "mounted") =>
    runtimeConfig.voice = IF lastOptions.voice = Omitted
                            THEN "zeynep" ELSE lastOptions.voice

\* ---- the React component <Bulut> ----------------------------------------
\* containerIdRef: the id a component gives its div.
ContainerIds == << "bulut-k3x9q2a", "bulut-p7m4z1c" >>
ProjectIds == {"proj_abc123", "proj_xyz789"}

\* One run of the effect: the props it closed over, its locals destroyed
\* and cleanup, whether its import has resolved, and, for the properties,
\* how that ended ("skipped", or what init did) and whether its cleanup ran.
NewEffect(k, id) ==
  [comp |-> k, projectId |-> id, destroyed |-> FALSE, cleanup |-> "unset",
   resolved |-> FALSE, outcome |-> "none", cleaned |-> FALSE]
EffectsOf(k) == {r \in 1..Len(effects) : effects[r].comp = k}
Current(k) == CHOOSE r \in EffectsOf(k) : \A q \in EffectsOf(k) : q <= r

\* The component mounts: its div is in the document, the effect runs, gives
\* the div its id and starts the import.
Mount(k, id) ==
  /\ EffectsOf(k) = {}
  /\ Len(effects) < MaxEffects
  /\ attached' = [attached EXCEPT ![k] = TRUE]
  /\ pageElements' = pageElements \cup {ContainerIds[k]}
  /\ effects' = Append(effects, NewEffect(k, id))
  /\ UNCHANGED << offReactVars, isInitialized, widgetContainer, widgetMountNode,
                  createdContainer, rendered, runtimeConfig, primary, lastOptions,
                  lastCall >>

\* The cleanup function of run r: destroyed = true; cleanup?.()
Cleanup(r) ==
  IF effects[r].cleanup = "destroy" THEN destroy
  ELSE UNCHANGED << isInitialized, widgetContainer, widgetMountNode, createdContainer,
                    pageElements, rendered, runtimeConfig, primary, lastOptions,
                    lastCall >>
Cleaned(r) == [effects[r] EXCEPT !.destroyed = TRUE, !.cleaned = TRUE]

\* A prop of the dependency list changes: the cleanup of the last run, then
\* the effect again.
PropsChange(k, id) ==
  /\ attached[k]
  /\ Len(effects) < MaxEffects
  /\ id # effects[Current(k)].projectId
  /\ Cleanup(Current(k))
  /\ effects' = Append([effects EXCEPT ![Current(k)] = Cleaned(Current(k))],
                       NewEffect(k, id))
  /\ UNCHANGED << offReactVars, attached >>

\* The component unmounts: React takes its div out of the document; the
\* cleanup of its effect runs afterwards, in a task of its own.
UnmountComponent(k) ==
  /\ attached[k]
  /\ attached' = [attached EXCEPT ![k] = FALSE]
  /\ pageElements' = pageElements \ {ContainerIds[k]}
  /\ UNCHANGED << offReactVars, effects, isInitialized, widgetContainer,
                  widgetMountNode, createdContainer, rendered, runtimeConfig,
                  primary, lastOptions, lastCall >>
CleanupAfterUnmount(k) ==
  /\ EffectsOf(k) # {}
  /\ ~attached[k]
  /\ ~effects[Current(k)].destroyed
  /\ Cleanup(Current(k))
  /\ effects' = [effects EXCEPT ![Current(k)] = Cleaned(Current(k))]
  /\ UNCHANGED << offReactVars, attached >>

\* if (destroyed) return
Skips(effect) == effect.destroyed

\* `await import('./index')' of run r resolves: the rest of the async
\* function.
ImportResolves(r) ==
  /\ r <= Len(effects)
  /\ ~effects[r].resolved
  /\ IF Skips(effects[r])
       THEN /\ effects' = [effects EXCEPT ![r].resolved = TRUE, ![r].outcome = "skipped"]
            /\ UNCHANGED apiVars
       ELSE /\ init([containerId |-> ContainerIds[effects[r].comp],
                     backendBaseUrl |-> Omitted,
                     projectId |-> effects[r].projectId, model |-> Omitted,
                     voice |-> Omitted, baseColor |-> NoText,
                     agentName |-> Omitted])
            /\ effects' = [effects EXCEPT ![r].resolved = TRUE,
                                          ![r].cleanup = "destroy",
                                          ![r].outcome = lastCall']
  /\ UNCHANGED << offReactVars, attached >>

ReactNext ==
  \/ \E k \in Components, id \in ProjectIds : Mount(k, id)
  \/ \E k \in Components, id \in ProjectIds : PropsChange(k, id)
  \/ \E k \in Components : UnmountComponent(k)
  \/ \E k \in Components : CleanupAfterUnmount(k)
  \/ \E r \in 1..MaxEffects : ImportResolves(r)

ReactSpec == TextInit /\ [][ReactNext]_vars

\* ---- properties of <Bulut> ------------------------------------------------
\* The step in which the import of run r resolves, and the one in which
\* its cleanup function runs.
Resolves(r) == r <= Len(effects) /\ ~effects[r].resolved /\ effects'[r].resolved
CleansUp(r) == r <= Len(effects) /\ ~effects[r].cleaned /\ effects'[r].cleaned
AllOver(mounts, runs) ==
  /\ Len(runs) > 0
  /\ \A k \in Components : ~mounts[k]
  /\ \A r \in 1..Len(runs) : runs[r].resolved /\ runs[r].destroyed

\* C36: a run of the effect whose component has unmounted, or whose props
\* have changed, before its import resolves never calls init; the cleanup
\* of a run that called init calls destroy; and when every component is
\* unmounted, every cleanup has run and every import has resolved, no
\* widget is initialized.
Outdated(r) ==
  \/ ~attached[effects[r].comp]
  \/ r # Current(effects[r].comp)
  \/ effects[r].destroyed
C36_ImportRaceLeaksNoWidget ==
  [][ /\ \A r \in 1..MaxEffects :
           /\ Resolves(r) /\ Outdated(r) => UNCHANGED apiVars
           /\ CleansUp(r) /\ effects[r].cleanup = "destroy"
                => ~isInitialized' /\ lastCall' \in {"destroyed", "not initialized"}
      /\ AllOver(attached', effects') => ~isInitialized' /\ ~rendered'
    ]_vars

\* C37: the cleanup of a run whose init call was rejected as already
\* initialized leaves the widget of another, still mounted component as it
\* is.
C37_RejectedInstanceDestroysNothing ==
  [][ \A r \in 1..MaxEffects :
        /\ CleansUp(r)
        /\ effects[r].outcome = "already"
        /\ isInitialized
        /\ \E k \in Components \ {effects[r].comp} :
             attached[k] /\ widgetContainer = ContainerIds[k]
        => isInitialized' /\ rendered' /\ widgetContainer' = widgetContainer
    ]_vars

====
